---- MODULE Spec2Model ----
(***************************************************************************)
(* Model of the GlobalWars master process (lobby coordinator): worker      *)
(* readiness, the periodic reconciliation tick (fetchLobbies followed by   *)
(* the scheduling step of ensureQueues), scheduleLobby, the kick-player    *)
(* proxy and the worker exit handler; and of one game session of a worker  *)
(* (GameServer): its phase and the GameInfo it reports.                     *)
(*                                                                         *)
(* Workers are the environment: a request to a worker settles with any    *)
(* outcome the worker or the network can produce.  Time is Date.now() in   *)
(* milliseconds.  A timer callback runs no earlier than its due time; the  *)
(* abort timer of a status request settles the request at its deadline.    *)
(* Everything that runs between two awaits of the code is one action.      *)
(***************************************************************************)
EXTENDS Integers, Sequences, FiniteSets, TLC

\* ---------------------------------------------------------------- bounds
MaxGames == 4        \* game identifiers generateID() hands out in one run
MaxWorkerGames == 3  \* the same, in one run of the worker lifecycle
MaxRequests == 4     \* status requests awaiting their response
MaxLoops == 2        \* setInterval loops started
MaxAdvances == 2     \* clock advances in one run
MaxKicks == 1        \* forwarded kick-player calls awaiting a response
MaxLiveAdvances == 1 \* clock advances in one run with failing workers
MaxClients == 2      \* clients connected to the session at once
MaxSessionAdvances == 3 \* clock advances in one run of the session
StartTime == 1000000 \* Date.now() when the master starts
MaxPoolLen == 3      \* entries of a submitted map pool
RandomSteps == 6     \* values Math.random() takes: 0, 1/6, ..., 5/6
MaxTeamPlayers == 9  \* humans in a lobby and its configured capacity
MaxNations == 2      \* nations of a map
MaxTeams == 3        \* a literal team count
MaxSide == 2         \* width and height of a terrain
MaxHeaderBytes == 13 \* bytes written in front of the terrain
MaxEvents == 2      \* events the worker sends or raises in one run
MaxAuthAdvances == 2 \* clock advances in one run of the auth router

\* ------------------------------------------------------ program constants
NumWorkers == 2
RANKED_QUEUE_COOLDOWN_MS == 180000
INTERVAL_MS == 100
ABORT_TIMEOUT_MS == 5000
START_SOON_MS == 250
QUEUE_SECONDS == 60
LOBBY_SECONDS == 30
PING_STALE_MS == 20000
TURN_SECONDS == 45
RANKED_MAX_PLAYERS == 40

Undefined == -1
Null == [null |-> TRUE]
WorkerIds == 0 .. (NumWorkers - 1)
GameTypes == {"Public", "Ranked"}
Delays == {INTERVAL_MS, RANKED_QUEUE_COOLDOWN_MS}
SessionGameTypes == {"Public", "Private", "Ranked"}
SessionDelays == {1000, PING_STALE_MS, QUEUE_SECONDS * 1000}

VARIABLES
    now,                    \* Date.now()
    advances,               \* clock advances taken so far
    procs,                  \* worker index -> "none" | "forked" | "listening"
    wedged,                 \* the listening workers that no longer answer
    readyWorkers,           \* the set readyWorkers
    timerDue,               \* per setInterval(ensureQueues, 100): is its callback due
    lastRankedScheduledAt,  \* the ranked cooldown marker
    publicLobbiesJsonStr,   \* the published snapshot
    publicLobbyIDs,         \* the registry: gameID -> gameType
    nextGameID,             \* the next identifier generateID() returns
    inflight,               \* fetchLobbies calls awaiting Promise.all
    creates,                \* create-game calls awaiting their response
    kicks,                  \* forwarded kick-player calls awaiting their response
    lastKick,               \* the answer the kick-player endpoint gave in the last step
    lastGet,                \* the answer GET /api/public_lobbies gave in the last step
    lastCall,               \* the coordinator-to-worker call that settled in the last step
    lastTick,               \* what the tick completed by the last step polled and did
    failedSincePublish,     \* lobbies whose status request failed since the last publication
    createdAt,              \* session: creation timestamp
    gameConfig,             \* session: [gameType, maxPlayers]
    activeClients,          \* session: number of connected clients
    hasStarted,             \* session: _hasStarted
    lastPingUpdate,         \* session: latest client-liveness timestamp
    lastRead,               \* session: what phase() or gameInfo() returned in the last step
    queueReads,             \* session: the msUntilStart values gameInfo() returned in Queue
    callArgs,               \* the arguments a library function is called with
    callResult,             \* what that call returned or threw
    isInitialized,          \* WorkerClient: isInitialized
    messageHandlers,        \* WorkerClient: the ids messageHandlers has a handler for
    workerListeners,        \* WorkerClient: the worker events initialize() listens to
    settled,                \* WorkerClient: the flag `settled` of initialize()
    timeoutId,              \* WorkerClient: when the init timer is due, Null when cleared
    promise,                \* WorkerClient: the promise initialize() returned
    workerEvents,           \* WorkerClient: what the worker sends or raises, and how much of it was dispatched
    loadedMaps,             \* terrain loader: the cache loadedMaps
    pendingLoads,           \* terrain loader: the calls past the cache lookup
    lastLoad,               \* terrain loader: what the call settled in the last step returned
    sessionStore,           \* auth router: uuid -> [expiresAt]
    issuedTokens,           \* auth router: the tokens issueJwt has signed
    lastResponse            \* auth router: the response sent in the last step

vars == <<now, advances, procs, wedged, readyWorkers, timerDue, lastRankedScheduledAt,
          publicLobbiesJsonStr, publicLobbyIDs, nextGameID, inflight, creates,
          kicks, lastKick, lastGet, lastCall, lastTick, failedSincePublish,
          createdAt, gameConfig, activeClients, hasStarted, lastPingUpdate,
          lastRead, queueReads, callArgs, callResult,
          isInitialized, messageHandlers, workerListeners, settled, timeoutId,
          promise, workerEvents, loadedMaps, pendingLoads, lastLoad,
          sessionStore, issuedTokens, lastResponse>>

coordVars == <<lastRankedScheduledAt, publicLobbiesJsonStr, publicLobbyIDs,
               nextGameID, inflight, creates, failedSincePublish>>
workerVars == <<procs, wedged, readyWorkers>>
sessionVars == <<createdAt, gameConfig, activeClients, hasStarted, lastPingUpdate,
                 lastRead, queueReads>>
callVars == <<callArgs, callResult>>
clientVars == <<isInitialized, messageHandlers, workerListeners, settled, timeoutId,
                promise, workerEvents>>
loaderVars == <<loadedMaps, pendingLoads, lastLoad>>
authVars == <<sessionStore, issuedTokens, lastResponse>>
libVars == <<clientVars, loaderVars, authVars>>
masterVars == <<advances, procs, wedged, readyWorkers, timerDue, lastRankedScheduledAt,
                publicLobbiesJsonStr, publicLobbyIDs, nextGameID, inflight, creates,
                kicks, lastKick, lastGet, lastCall, lastTick, failedSincePublish>>

\* ------------------------------------------------------------- helpers
Delete(f, g) == [x \in (DOMAIN f) \ {g} |-> f[x]]

DeleteAll(f, gs) == [x \in (DOMAIN f) \ gs |-> f[x]]

RECURSIVE SortedSeq(_)
SortedSeq(S) ==
    IF S = {} THEN <<>>
    ELSE LET m == CHOOSE x \in S : \A y \in S : x <= y
         IN <<m>> \o SortedSeq(S \ {m})

\* Array.from(publicLobbyIDs.entries()): a Map iterates in insertion order,
\* and identifiers are inserted in the order generateID() produced them.
LobbyEntries(reg) ==
    LET ids == SortedSeq(DOMAIN reg)
    IN [i \in 1 .. Len(ids) |-> [gameID |-> ids[i], gameType |-> reg[ids[i]]]]

\* The GameInfo bodies a worker answers a status request with at time t.
ResponseInfos(t) ==
    { [hasConfig |-> FALSE, msUntilStart |-> Undefined, clients |-> Undefined,
       numClients |-> Undefined, maxPlayers |-> Undefined],
      [hasConfig |-> TRUE, msUntilStart |-> t + START_SOON_MS, clients |-> Undefined,
       numClients |-> 0, maxPlayers |-> 1],
      [hasConfig |-> TRUE, msUntilStart |-> t + START_SOON_MS + 1, clients |-> Undefined,
       numClients |-> 0, maxPlayers |-> 1],
      [hasConfig |-> TRUE, msUntilStart |-> t + START_SOON_MS + 1, clients |-> 1,
       numClients |-> Undefined, maxPlayers |-> 1],
      [hasConfig |-> TRUE, msUntilStart |-> t + START_SOON_MS + 1, clients |-> Undefined,
       numClients |-> 0, maxPlayers |-> Undefined] }

\* info.clients?.length ?? info.numClients ?? 0
NumClientsOf(info) ==
    IF info.clients # Undefined THEN info.clients
    ELSE IF info.numClients # Undefined THEN info.numClients
    ELSE 0

\* (info.msUntilStart ?? Date.now()) - Date.now()
MsUntilStartOf(info, t) ==
    (IF info.msUntilStart # Undefined THEN info.msUntilStart ELSE t) - t

\* Verdict with the start threshold compared strictly.
VerdictStrict(res, t) ==
    IF res = Null THEN "null"
    ELSE IF ~res.hasConfig THEN "noConfig"
    ELSE IF MsUntilStartOf(res, t) < START_SOON_MS THEN "startingSoon"
    ELSE IF res.maxPlayers # Undefined /\ NumClientsOf(res) >= res.maxPlayers THEN "full"
    ELSE "listed"

\* What results.forEach does with one result at time t.
Verdict(res, t) ==
    IF res = Null THEN "null"
    ELSE IF ~res.hasConfig THEN "noConfig"
    ELSE IF MsUntilStartOf(res, t) <= START_SOON_MS THEN "startingSoon"
    ELSE IF res.maxPlayers # Undefined /\ NumClientsOf(res) >= res.maxPlayers THEN "full"
    ELSE "listed"

\* lobbyInfos of a batch that one failed request aborts as a whole.
LobbyInfosAllOrNothing(tick, t) ==
    IF \E g \in DOMAIN tick.results : tick.results[g] = Null THEN <<>>
    ELSE LET keep == SelectSeq(tick.entries,
                        LAMBDA e : Verdict(tick.results[e.gameID], t) = "listed")
         IN [i \in 1 .. Len(keep) |->
                [gameID |-> keep[i].gameID,
                 numClients |-> NumClientsOf(tick.results[keep[i].gameID]),
                 msUntilStart |-> MsUntilStartOf(tick.results[keep[i].gameID], t)]]

\* The entries of a tick that results.forEach deletes from the registry.
Dropped(tick, t) ==
    { tick.entries[i].gameID : i \in
        { j \in 1 .. Len(tick.entries) :
            Verdict(tick.results[tick.entries[j].gameID], t)
                \in {"noConfig", "startingSoon", "full"} } }

ListedEntry(e, res, t) ==
    [gameID |-> e.gameID, numClients |-> NumClientsOf(res),
     msUntilStart |-> MsUntilStartOf(res, t)]

\* lobbyInfos, in the order of the results.
LobbyInfos(tick, t) ==
    LET keep == SelectSeq(tick.entries,
                    LAMBDA e : Verdict(tick.results[e.gameID], t) = "listed")
    IN [i \in 1 .. Len(keep) |-> ListedEntry(keep[i], tick.results[keep[i].gameID], t)]

\* Counts of the polled entries, listed or not.
LobbyCountsPolled(tick, t) ==
    [ty \in GameTypes |->
        Cardinality({ i \in 1 .. Len(tick.entries) : tick.entries[i].gameType = ty })]

\* lobbyCounts: the listed entries, by the gameType captured when polled.
LobbyCounts(tick, t) ==
    [ty \in GameTypes |->
        Cardinality({ i \in 1 .. Len(tick.entries) :
            /\ tick.entries[i].gameType = ty
            /\ Verdict(tick.results[tick.entries[i].gameID], t) = "listed" })]

\* The cooldown taken in seconds instead of milliseconds.
CooldownElapsedSeconds(t, marker) == t - marker >= RANKED_QUEUE_COOLDOWN_MS \div 1000

\* now - lastRankedScheduledAt >= RANKED_QUEUE_COOLDOWN_MS
CooldownElapsed(t, marker) == t - marker >= RANKED_QUEUE_COOLDOWN_MS

\* Scheduling that looks at the total number of lobbies for the public one.
ToScheduleByTotal(counts, t, marker) ==
    (IF counts["Public"] + counts["Ranked"] = 0 THEN <<"Public">> ELSE <<>>)
    \o (IF counts["Ranked"] = 0 /\ CooldownElapsed(t, marker) THEN <<"Ranked">> ELSE <<>>)

\* The lobby types the .then(counts => ...) step of ensureQueues schedules.
ToSchedule(counts, t, marker) ==
    (IF counts["Public"] = 0 THEN <<"Public">> ELSE <<>>)
    \o (IF counts["Ranked"] = 0 /\ CooldownElapsed(t, marker) THEN <<"Ranked">> ELSE <<>>)

\* An abort timer that is never armed.
AbortDeadlineNever(sentAt) == sentAt + ABORT_TIMEOUT_MS * ABORT_TIMEOUT_MS

\* setTimeout(() => controller.abort(), 5000)
AbortDeadline(sentAt) == sentAt + ABORT_TIMEOUT_MS

Pending == [pending |-> TRUE]

PendingStatus ==
    { <<k, g>> \in (1 .. Len(inflight)) \X (1 .. (nextGameID - 1)) :
        /\ g \in DOMAIN inflight[k].results
        /\ inflight[k].results[g] = Pending }

EmptyMap == [g \in {} |-> Null]

NoCall == [kind |-> "none"]

NoKick == [status |-> 0, forwarded |-> FALSE, authOk |-> FALSE, idsOk |-> FALSE]

NoGet == [served |-> FALSE]

NoTick == [done |-> FALSE, sentAt |-> 0, at |-> 0, entries |-> <<>>, results |-> EmptyMap, listed |-> <<>>,
           counts |-> [ty \in GameTypes |-> 0], created |-> {}, markerBefore |-> 0,
           before |-> {}, failedBefore |-> {}]

NoRead == [op |-> "none"]

NoArgs == [fn |-> "none"]

NotRun == [done |-> FALSE]

\* ------------------------------------------------------------- initial
\* new GameServer(id, log, Date.now(), config, gameConfig)
InitServer(cfg) ==
    /\ createdAt = StartTime
    /\ gameConfig = cfg
    /\ activeClients = 0
    /\ hasStarted = FALSE
    /\ lastPingUpdate = StartTime
    /\ lastRead = NoRead
    /\ queueReads = {}

InitMaster ==
    /\ now = StartTime
    /\ advances = 0
    /\ procs = [w \in WorkerIds |-> "forked"]
    /\ wedged = {}
    /\ readyWorkers = {}
    /\ timerDue = <<>>
    /\ lastRankedScheduledAt = 0
    /\ publicLobbiesJsonStr = [published |-> FALSE, lobbies |-> <<>>]
    /\ publicLobbyIDs = EmptyMap
    /\ nextGameID = 1
    /\ inflight = <<>>
    /\ creates = {}
    /\ kicks = {}
    /\ lastKick = NoKick
    /\ lastGet = NoGet
    /\ lastCall = NoCall
    /\ lastTick = NoTick
    /\ failedSincePublish = {}

\* No library function has been called.
InitCalls == callArgs = NoArgs /\ callResult = NotRun

\* timeoutId = null
NoTimeout == -1

\* No promise: initialize() has not been called.
NoPromise == [state |-> "none", calls |-> 0, by |-> "none"]

\* new WorkerClient(gameStartInfo, clientID): nothing is registered but the
\* global message handler, and the worker sends nothing.
InitWorkerClient ==
    /\ isInitialized = FALSE
    /\ messageHandlers = {}
    /\ workerListeners = {}
    /\ settled = FALSE
    /\ timeoutId = NoTimeout
    /\ promise = NoPromise

NoLoad == [done |-> FALSE]

\* const loadedMaps = new Map()
InitLoader ==
    /\ loadedMaps = EmptyMap
    /\ pendingLoads = {}
    /\ lastLoad = NoLoad

NoResponse == [route |-> "none"]

\* const sessionStore = new Map()
InitAuth ==
    /\ sessionStore = EmptyMap
    /\ issuedTokens = {}
    /\ lastResponse = NoResponse

\* The modules the master does not use, as they are after loading.
InitLib ==
    /\ InitWorkerClient
    /\ workerEvents = [script |-> <<>>, dispatched |-> 0]
    /\ InitLoader
    /\ InitAuth

Init ==
    /\ InitMaster
    /\ InitServer([gameType |-> "Ranked", maxPlayers |-> MaxClients])
    /\ InitCalls
    /\ InitLib

\* ------------------------------------------------------------- the tick
\* scheduleLobby up to its await: a fresh identifier is registered with its
\* type and the create-game call is sent.
Registered(reg, types, first) ==
    [g \in (DOMAIN reg) \cup { first + i - 1 : i \in 1 .. Len(types) } |->
        IF g \in DOMAIN reg THEN reg[g] ELSE types[g - first + 1]]

CreateCalls(types, first, t) ==
    { [gameID |-> first + i - 1, gameType |-> types[i], sentAt |-> t] :
        i \in 1 .. Len(types) }

\* fetchLobbies from `await Promise.all` on, then the .then(counts => ...)
\* step of ensureQueues, run at time t; reg is the registry the results are
\* processed on.  With no entries this is the early return of fetchLobbies.
FinishTickAt(t, tick, reg, failed) ==
    LET counts == LobbyCounts(tick, t)
        types == ToSchedule(counts, t, lastRankedScheduledAt)
        reg1 == DeleteAll(reg, Dropped(tick, t))
        marker == IF \E i \in 1 .. Len(types) : types[i] = "Ranked"
                  THEN t ELSE lastRankedScheduledAt
    IN /\ nextGameID + Len(types) - 1 <= MaxGames
       /\ publicLobbiesJsonStr' = [published |-> TRUE, lobbies |-> LobbyInfos(tick, t)]
       /\ publicLobbyIDs' = Registered(reg1, types, nextGameID)
       /\ creates' = creates \cup CreateCalls(types, nextGameID, t)
       /\ nextGameID' = nextGameID + Len(types)
       /\ lastRankedScheduledAt' = marker
       /\ failedSincePublish' = {}
       /\ lastTick' = [done |-> TRUE, sentAt |-> tick.sentAt, at |-> t,
                       entries |-> tick.entries,
                       results |-> tick.results, listed |-> LobbyInfos(tick, t),
                       counts |-> counts,
                       created |-> CreateCalls(types, nextGameID, t),
                       markerBefore |-> lastRankedScheduledAt,
                       before |-> DOMAIN reg, failedBefore |-> failed]

FinishTick(tick, reg, failed) == FinishTickAt(now, tick, reg, failed)

\* One call of ensureQueues: fetchLobbies up to `await Promise.all`.
EnsureQueues ==
    IF DOMAIN publicLobbyIDs = {}
    THEN /\ FinishTick([entries |-> <<>>, sentAt |-> now, results |-> EmptyMap],
                       publicLobbyIDs, failedSincePublish)
         /\ inflight' = inflight
    ELSE /\ Cardinality(PendingStatus) + Cardinality(DOMAIN publicLobbyIDs) <= MaxRequests
         /\ inflight' = Append(inflight,
                [entries |-> LobbyEntries(publicLobbyIDs), sentAt |-> now,
                 results |-> [g \in DOMAIN publicLobbyIDs |-> Pending]])
         /\ lastTick' = NoTick
         /\ UNCHANGED <<lastRankedScheduledAt, publicLobbiesJsonStr, publicLobbyIDs,
                        nextGameID, creates, failedSincePublish>>

\* Scheduling started by the first WORKER_READY.
AnyWorkerReady(ready) == Cardinality(ready) >= 1

\* readyWorkers.size === config.numWorkers()
AllWorkersReady(ready) == Cardinality(ready) = NumWorkers

\* cluster.on("message"): WORKER_READY from worker w.
WorkerReady(w) ==
    /\ procs[w] = "forked"
    /\ procs' = [procs EXCEPT ![w] = "listening"]
    /\ readyWorkers' = readyWorkers \cup {w}
    /\ IF AllWorkersReady(readyWorkers \cup {w})
       THEN /\ Len(timerDue) < MaxLoops
            /\ timerDue' = Append(timerDue, FALSE)
            /\ EnsureQueues
       ELSE /\ lastTick' = NoTick
            /\ UNCHANGED <<timerDue, coordVars>>
    /\ UNCHANGED <<sessionVars, callVars, libVars>>
    /\ lastGet' = NoGet
    /\ lastCall' = NoCall
    /\ lastKick' = NoKick
    /\ UNCHANGED <<now, advances, wedged, kicks>>

\* A setInterval(ensureQueues, 100) timer fires.
IntervalFire(i) ==
    /\ i \in 1 .. Len(timerDue)
    /\ timerDue[i]
    /\ timerDue' = [timerDue EXCEPT ![i] = FALSE]
    /\ EnsureQueues
    /\ UNCHANGED <<sessionVars, callVars, libVars>>
    /\ lastGet' = NoGet
    /\ lastCall' = NoCall
    /\ lastKick' = NoKick
    /\ UNCHANGED <<now, advances, workerVars, kicks>>

Remove(s, k) == [i \in 1 .. (Len(s) - 1) |-> IF i < k THEN s[i] ELSE s[i + 1]]

\* The status request of in-flight tick k for lobby g settles: with a body
\* (.then) or with a failure, a timeout or an unparsable body (.catch).
SettleAt(t, k, g, outcome) ==
    /\ <<k, g>> \in PendingStatus
    /\ LET tick == [inflight[k] EXCEPT !.results[g] = outcome]
           reg == IF outcome = Null THEN Delete(publicLobbyIDs, g) ELSE publicLobbyIDs
           failed == IF outcome = Null THEN {g} ELSE {}
       IN IF \A h \in DOMAIN tick.results : tick.results[h] # Pending
          THEN /\ inflight' = Remove(inflight, k)
               /\ FinishTickAt(t, tick, reg, failedSincePublish \cup failed)
          ELSE /\ inflight' = [inflight EXCEPT ![k] = tick]
               /\ publicLobbyIDs' = reg
               /\ failedSincePublish' = failedSincePublish \cup failed
               /\ lastTick' = NoTick
               /\ UNCHANGED <<lastRankedScheduledAt, publicLobbiesJsonStr, nextGameID,
                              creates>>
    /\ UNCHANGED <<sessionVars, callVars, libVars>>
    /\ lastGet' = NoGet
    /\ lastCall' = [kind |-> "status", gameID |-> g, ok |-> outcome # Null]
    /\ lastKick' = NoKick
    /\ UNCHANGED <<advances, workerVars, kicks>>

SettleStatus(k, g, outcome) ==
    /\ SettleAt(now, k, g, outcome)
    /\ UNCHANGED <<now, timerDue>>

StatusResponse(k, g) ==
    \E info \in ResponseInfos(now) : SettleStatus(k, g, info)

StatusFailure(k, g) == SettleStatus(k, g, Null)

\* The abort timer of the status request of in-flight tick k for lobby g
\* fires: time has reached the deadline of the request, which no response
\* settled, and the .catch of the request runs.  Timers fire in the order
\* of their deadlines.
StatusTimeout(k, g) ==
    /\ <<k, g>> \in PendingStatus
    /\ LET deadline == AbortDeadline(inflight[k].sentAt)
       IN /\ now <= deadline
          /\ \A p \in PendingStatus : deadline <= AbortDeadline(inflight[p[1]].sentAt)
          /\ now' = deadline
          /\ timerDue' = [i \in 1 .. Len(timerDue) |->
                            timerDue[i] \/ deadline - now >= INTERVAL_MS]
          /\ SettleAt(deadline, k, g, Null)

\* A failed ranked attempt that leaves the cooldown marker as it is.
MarkerKept(c, ok, marker) == marker

\* The catch handlers of a create-game call that failed: scheduleLobby's
\* (registry) and, for a ranked lobby, ensureQueues' (cooldown marker).
MarkerAfterCreate(c, ok, marker) ==
    IF ~ok /\ c.gameType = "Ranked" THEN 0 ELSE marker

RegistryAfterCreate(c, ok, reg) ==
    IF ok THEN reg ELSE Delete(reg, c.gameID)

\* The create-game call of scheduleLobby settles: response.ok, or a failure
\* or a non-OK answer.
CreateResponse(c, ok) ==
    /\ c \in creates
    /\ creates' = creates \ {c}
    /\ publicLobbyIDs' = RegistryAfterCreate(c, ok, publicLobbyIDs)
    /\ lastRankedScheduledAt' = MarkerAfterCreate(c, ok, lastRankedScheduledAt)
    /\ UNCHANGED <<sessionVars, callVars, libVars>>
    /\ lastGet' = NoGet
    /\ lastCall' = [kind |-> "create", gameID |-> c.gameID, gameType |-> c.gameType,
                    ok |-> ok, threw |-> ~ok]
    /\ lastTick' = NoTick
    /\ lastKick' = NoKick
    /\ UNCHANGED <<now, advances, timerDue, workerVars, kicks, publicLobbiesJsonStr,
                   nextGameID, inflight, failedSincePublish>>

\* A scheduler that takes every game type.
SchedulableAlways(gameType) == TRUE

\* gameType === GameType.Public || gameType === GameType.Ranked
Schedulable(gameType) == gameType \in GameTypes

\* scheduleLobby(gameConfig) up to its await, for a configuration of any
\* game type: an unsupported type returns at once.
ScheduleLobby(gameType) ==
    LET types == IF Schedulable(gameType) THEN <<gameType>> ELSE <<>>
    IN /\ nextGameID + Len(types) - 1 <= MaxGames
       /\ publicLobbyIDs' = Registered(publicLobbyIDs, types, nextGameID)
       /\ creates' = creates \cup CreateCalls(types, nextGameID, now)
       /\ nextGameID' = nextGameID + Len(types)
       /\ lastCall' = [kind |-> "schedule", gameType |-> gameType, ok |-> TRUE,
                       gameID |-> nextGameID, before |-> publicLobbyIDs,
                       pending |-> creates]
       /\ lastGet' = NoGet
       /\ lastTick' = NoTick
       /\ lastKick' = NoKick
       /\ UNCHANGED <<sessionVars, callVars, libVars>>
       /\ UNCHANGED <<now, advances, timerDue, workerVars, kicks, publicLobbiesJsonStr,
                      lastRankedScheduledAt, inflight, failedSincePublish>>

\* ------------------------------------------------------ kick-player proxy
\* POST /api/kick_player/:gameID/:clientID up to the forwarded fetch.
\* A proxy that checks the identifiers only.
KickStatusNoAuth(authOk, idsOk) ==
    IF ~idsOk THEN 400 ELSE 0

\* The answer the handler gives before it forwards anything: 401 when the
\* admin header does not match the admin token, 400 when an identifier is
\* malformed, none (0) when the call is forwarded.
KickStatus(authOk, idsOk) ==
    IF ~authOk THEN 401
    ELSE IF ~idsOk THEN 400
    ELSE 0

KickRequest(authOk, idsOk, g) ==
    /\ IF KickStatus(authOk, idsOk) # 0
       THEN /\ lastKick' = [status |-> KickStatus(authOk, idsOk), forwarded |-> FALSE,
                            authOk |-> authOk, idsOk |-> idsOk]
            /\ kicks' = kicks
       ELSE /\ Cardinality(kicks) < MaxKicks
            /\ kicks' = kicks \cup {[gameID |-> g, sentAt |-> now]}
            /\ lastKick' = [status |-> 0, forwarded |-> TRUE,
                            authOk |-> authOk, idsOk |-> idsOk]
    /\ UNCHANGED <<sessionVars, callVars, libVars>>
    /\ lastGet' = NoGet
    /\ lastCall' = NoCall
    /\ lastTick' = NoTick
    /\ UNCHANGED <<now, advances, timerDue, workerVars, coordVars>>

\* The forwarded kick call settles: response.ok, or a failure / non-OK answer.
\* A proxy whose catch drops the lobby as the other failure handlers do.
RegistryAfterKickDrops(c, ok, reg) ==
    IF ok THEN reg ELSE Delete(reg, c.gameID)

\* The registry after the forwarded call settled: neither the success path
\* nor the catch of the handler touches publicLobbyIDs.
RegistryAfterKick(c, ok, reg) == reg

KickResponse(c, ok) ==
    /\ c \in kicks
    /\ kicks' = kicks \ {c}
    /\ lastKick' = [status |-> IF ok THEN 200 ELSE 500, forwarded |-> TRUE,
                    authOk |-> TRUE, idsOk |-> TRUE]
    /\ publicLobbyIDs' = RegistryAfterKick(c, ok, publicLobbyIDs)
    /\ UNCHANGED <<sessionVars, callVars, libVars>>
    /\ lastGet' = NoGet
    /\ lastCall' = [kind |-> "kick", gameID |-> c.gameID, ok |-> ok]
    /\ lastTick' = NoTick
    /\ UNCHANGED <<now, advances, timerDue, workerVars, lastRankedScheduledAt,
                   publicLobbiesJsonStr, nextGameID, inflight, creates,
                   failedSincePublish>>

\* ------------------------------------------------------- public listing
\* GET /api/public_lobbies: res.send(publicLobbiesJsonStr).
GetPublicLobbies ==
    /\ UNCHANGED <<sessionVars, callVars, libVars>>
    /\ lastGet' = [served |-> TRUE, body |-> publicLobbiesJsonStr]
    /\ lastCall' = NoCall
    /\ lastTick' = NoTick
    /\ lastKick' = NoKick
    /\ UNCHANGED <<now, advances, timerDue, workerVars, kicks, coordVars>>

\* ------------------------------------------------------------ worker exit
\* worker.process?.env?.WORKER_ID of the exit handler: envId tells whether
\* the process handle carries the environment the worker was forked with.
ExitWorkerId(w, envId) == IF envId THEN w ELSE Undefined

\* cluster.on("exit") for the process of worker w.
WorkerExit(w, envId) ==
    /\ procs[w] # "none"
    /\ IF ExitWorkerId(w, envId) = Undefined
       THEN procs' = [procs EXCEPT ![w] = "none"]
       ELSE procs' = [procs EXCEPT ![ExitWorkerId(w, envId)] = "forked"]
    /\ wedged' = wedged \ {w}
    /\ UNCHANGED <<sessionVars, callVars, libVars>>
    /\ lastGet' = NoGet
    /\ lastCall' = NoCall
    /\ lastTick' = NoTick
    /\ lastKick' = NoKick
    /\ UNCHANGED <<now, advances, timerDue, readyWorkers, kicks, coordVars>>

\* A listening worker stops answering: its requests stay open.
WorkerWedge(w) ==
    /\ procs[w] = "listening"
    /\ w \notin wedged
    /\ wedged' = wedged \cup {w}
    /\ UNCHANGED <<sessionVars, callVars, libVars>>
    /\ lastGet' = NoGet
    /\ lastCall' = NoCall
    /\ lastTick' = NoTick
    /\ lastKick' = NoKick
    /\ UNCHANGED <<now, advances, timerDue, procs, readyWorkers, kicks, coordVars>>

\* config.workerPort(gameID): the worker that owns a game is fixed by a hash
\* of the game identifier.
WorkerIndex(g) == g % NumWorkers

\* The worker answers the requests sent to it.
Responsive(w) == procs[w] = "listening" /\ w \notin wedged

\* ------------------------------------------------------------------ time
\* Date.now() moves on by d.  A pending status request is settled (by its
\* response or by its abort timer) no later than its deadline; an interval
\* whose period has passed is due.
Advance(d) ==
    /\ advances < MaxAdvances
    /\ \A p \in PendingStatus : now + d <= AbortDeadline(inflight[p[1]].sentAt)
    /\ now' = now + d
    /\ advances' = advances + 1
    /\ timerDue' = [i \in 1 .. Len(timerDue) |-> timerDue[i] \/ d >= INTERVAL_MS]
    /\ UNCHANGED <<sessionVars, callVars, libVars>>
    /\ lastGet' = NoGet
    /\ lastCall' = NoCall
    /\ lastTick' = NoTick
    /\ lastKick' = NoKick
    /\ UNCHANGED <<workerVars, kicks, coordVars>>

\* ------------------------------------------------------- game session
\* The configurations a session is created with: a ranked session always has
\* a maxPlayers (createRankedGameConfig), another one may have none.
SessionConfigs ==
    { [gameType |-> ty, maxPlayers |-> mp] :
        ty \in SessionGameTypes, mp \in {Undefined} \cup (1 .. MaxClients) }
    \ { [gameType |-> "Ranked", maxPlayers |-> Undefined] }

\* gameConfig.maxPlayers ?? 0
MaxPlayersOf(cfg) == IF cfg.maxPlayers = Undefined THEN 0 ELSE cfg.maxPlayers

\* A deadline that starts again at every read.
QueueDeadlineFromNow(created, t) == t + QUEUE_SECONDS * 1000

\* creationTime + queueSeconds * 1000
QueueDeadline(created, t) == created + QUEUE_SECONDS * 1000

\* creationTime + lobbySeconds * 1000
LobbyDeadline(created, t) == created + LOBBY_SECONDS * 1000

\* Every game type waits in a queue.
HasQueueAlways(cfg) == TRUE

\* Only a ranked session has a Queue phase.
HasQueue(cfg) == cfg.gameType = "Ranked"

\* A queue that only its deadline ends.
QueueOpenUntilDeadline(cfg, clients, created, t) ==
    t <= QueueDeadline(created, t)

\* The queue is open while the roster is below maxPlayers and the clock has
\* not passed the queue deadline.
QueueOpen(cfg, clients, created, t) ==
    /\ clients < MaxPlayersOf(cfg)
    /\ t <= QueueDeadline(created, t)

\* A game that the end of the lobby countdown starts.
StartedByTimer(started, created, t) ==
    started \/ t > QueueDeadline(created, t) + LOBBY_SECONDS * 1000

\* The game has started: the hasStarted flag, set from outside.
Started(started, created, t) == started

\* Staleness that begins at the threshold.
PingStaleAtThreshold(lastPing, t) == t - lastPing >= PING_STALE_MS

\* lastPingUpdate is more than 20 seconds in the past.
PingStale(lastPing, t) == t - lastPing > PING_STALE_MS

\* phase(), computed on every query from the timestamps, the roster and the
\* hasStarted flag.
PhaseAt(cfg, clients, started, lastPing, created, t) ==
    IF Started(started, created, t)
    THEN IF PingStale(lastPing, t) THEN "Finished" ELSE "Active"
    ELSE IF HasQueue(cfg) /\ QueueOpen(cfg, clients, created, t) THEN "Queue"
    ELSE "Lobby"

Phase == PhaseAt(gameConfig, activeClients, hasStarted, lastPingUpdate, createdAt, now)

\* gameInfo().msUntilStart
MsUntilStart ==
    IF HasQueue(gameConfig) THEN QueueDeadline(createdAt, now)
    ELSE LobbyDeadline(createdAt, now)

\* server.phase()
PhaseQuery ==
    /\ lastRead' = [op |-> "phase", phase |-> Phase, at |-> now]
    /\ UNCHANGED <<now, masterVars, callVars, libVars, createdAt, gameConfig, activeClients, hasStarted,
                   lastPingUpdate, queueReads>>

\* server.gameInfo()
GameInfoQuery ==
    /\ lastRead' = [op |-> "gameInfo", phase |-> Phase, at |-> now,
                    numClients |-> activeClients, msUntilStart |-> MsUntilStart]
    /\ queueReads' = IF Phase = "Queue"
                     THEN queueReads \cup {[at |-> now, msUntilStart |-> MsUntilStart]}
                     ELSE queueReads
    /\ UNCHANGED <<now, masterVars, callVars, libVars, createdAt, gameConfig, activeClients, hasStarted,
                   lastPingUpdate>>

\* The roster changes: clients join or leave.
SetActiveClients(n) ==
    /\ n # activeClients
    /\ activeClients' = n
    /\ lastRead' = NoRead
    /\ UNCHANGED <<now, masterVars, callVars, libVars, createdAt, gameConfig, hasStarted, lastPingUpdate,
                   queueReads>>

\* The simulation driver starts the game of a session that is in Lobby.
Start ==
    /\ Phase = "Lobby"
    /\ hasStarted' = TRUE
    /\ lastRead' = NoRead
    /\ UNCHANGED <<now, masterVars, callVars, libVars, createdAt, gameConfig, activeClients, lastPingUpdate,
                   queueReads>>

\* The liveness timestamp is written: a ping sets it to the current time.
SetLastPingUpdate(t) ==
    /\ t # lastPingUpdate
    /\ lastPingUpdate' = t
    /\ lastRead' = NoRead
    /\ UNCHANGED <<now, masterVars, callVars, libVars, createdAt, gameConfig, activeClients, hasStarted,
                   queueReads>>

\* updateGameConfig({maxPlayers}): a field with default update semantics.
UpdateGameConfig(mp) ==
    /\ mp # gameConfig.maxPlayers
    /\ gameConfig' = [gameConfig EXCEPT !.maxPlayers = mp]
    /\ lastRead' = NoRead
    /\ UNCHANGED <<now, masterVars, callVars, libVars, createdAt, activeClients, hasStarted, lastPingUpdate,
                   queueReads>>

\* Date.now() of the worker moves on by d.
SetSystemTime(d) ==
    /\ advances < MaxSessionAdvances
    /\ now' = now + d
    /\ advances' = advances + 1
    /\ lastRead' = NoRead
    /\ UNCHANGED <<callVars, libVars, procs, wedged, readyWorkers, timerDue, lastRankedScheduledAt,
                   publicLobbiesJsonStr, publicLobbyIDs, nextGameID, inflight, creates,
                   kicks, lastKick, lastGet, lastCall, lastTick, failedSincePublish,
                   createdAt, gameConfig, activeClients, hasStarted, lastPingUpdate,
                   queueReads>>

\* ------------------------------------------------------ ranked preset
Range(s) == { s[i] : i \in 1 .. Len(s) }

SeqsUpTo(S, n) == UNION { [1 .. k -> S] : k \in 0 .. n }

Restrict(f, D) == [k \in D |-> f[k]]

\* A field of a Partial<GameConfig> is present.
Has(o, k) == k \in DOMAIN o

RANKED_MAP_POOL ==
    <<"World", "Europe", "Asia", "NorthAmerica", "SouthAmerica", "Pangaea">>

RANKED_TURN_TIMERS ==
    [queueSeconds |-> QUEUE_SECONDS, lobbySeconds |-> LOBBY_SECONDS,
     turnSeconds |-> TURN_SECONDS]

RANKED_FOG_RULE == "Persistent"

\* GameMapType: the ranked maps and a map outside the ranked pool.
GameMapTypes == Range(RANKED_MAP_POOL) \cup {"Africa"}

\* The maps callers put into the pools they submit.
SubmittedMaps == {"World", "Europe", "Africa"}

SubmittedPools == SeqsUpTo(SubmittedMaps, MaxPoolLen)

\* Overrides that try to set every field of the preset.
PresetOverrides ==
    [maxPlayers |-> MaxClients, gameType |-> "Public", gameMode |-> "Team",
     disableNPCs |-> FALSE, bots |-> 400, infiniteGold |-> TRUE,
     infiniteTroops |-> TRUE, instantBuild |-> TRUE, donateGold |-> TRUE,
     donateTroops |-> TRUE, gameMapSize |-> "Compact", difficulty |-> "Hard",
     disabledUnits |-> <<"Warship">>, fogRule |-> "Off",
     turnTimers |-> [queueSeconds |-> 1, lobbySeconds |-> 1, turnSeconds |-> 1]]

\* Partial<GameConfig>: any of gameMap and mapPool, with or without the
\* other fields.
Overrides ==
    { Restrict([k \in (DOMAIN PresetOverrides) \cup {"gameMap", "mapPool"} |->
                   IF k = "gameMap" THEN m
                   ELSE IF k = "mapPool" THEN p
                   ELSE PresetOverrides[k]],
               D \cup (IF all THEN DOMAIN PresetOverrides ELSE {})) :
        m \in SubmittedMaps, p \in SubmittedPools,
        D \in SUBSET {"gameMap", "mapPool"}, all \in BOOLEAN }

\* Math.floor(Math.random() * pool.length), Math.random() being
\* random / RandomSteps.
PickIndex(pool, random) == (random * Len(pool)) \div RandomSteps

\* pickRankedMap: pool[index]; an empty pool throws, and
\* createRankedGameConfig never passes one.
pickRankedMap(pool, random) == pool[PickIndex(pool, random) + 1]

\* overrides.f ?? dflt
OrElse(overrides, f, dflt) == IF Has(overrides, f) THEN overrides[f] ELSE dflt

\* The preset with every override spread over it.
createRankedGameConfigSpread(overrides, random) ==
    LET pool == IF Has(overrides, "mapPool") /\ Len(overrides.mapPool) > 0
                THEN overrides.mapPool ELSE RANKED_MAP_POOL
        chosenMap == IF Has(overrides, "gameMap") /\ overrides.gameMap \in Range(pool)
                     THEN overrides.gameMap ELSE pickRankedMap(pool, random)
        base == [donateGold |-> FALSE, donateTroops |-> FALSE, gameMap |-> chosenMap,
                 maxPlayers |-> RANKED_MAX_PLAYERS, gameType |-> "Ranked",
                 gameMapSize |-> "Normal", difficulty |-> "Medium",
                 infiniteGold |-> FALSE, infiniteTroops |-> FALSE,
                 instantBuild |-> FALSE, disableNPCs |-> TRUE, gameMode |-> "FFA",
                 playerTeams |-> Undefined, bots |-> 0, disabledUnits |-> <<>>,
                 mapPool |-> pool, turnTimers |-> RANKED_TURN_TIMERS,
                 fogRule |-> RANKED_FOG_RULE]
    IN [k \in DOMAIN base |->
           IF Has(overrides, k) /\ k \notin {"gameMap", "mapPool"}
           THEN overrides[k] ELSE base[k]]

createRankedGameConfig(overrides, random) ==
    LET pool == IF Has(overrides, "mapPool") /\ Len(overrides.mapPool) > 0
                THEN overrides.mapPool ELSE RANKED_MAP_POOL
        chosenMap == IF Has(overrides, "gameMap") /\ overrides.gameMap \in Range(pool)
                     THEN overrides.gameMap ELSE pickRankedMap(pool, random)
    IN [donateGold |-> FALSE, donateTroops |-> FALSE, gameMap |-> chosenMap,
        maxPlayers |-> OrElse(overrides, "maxPlayers", RANKED_MAX_PLAYERS),
        gameType |-> "Ranked",
        gameMapSize |-> OrElse(overrides, "gameMapSize", "Normal"),
        difficulty |-> OrElse(overrides, "difficulty", "Medium"),
        infiniteGold |-> FALSE, infiniteTroops |-> FALSE, instantBuild |-> FALSE,
        disableNPCs |-> TRUE, gameMode |-> "FFA", playerTeams |-> Undefined,
        bots |-> 0, disabledUnits |-> OrElse(overrides, "disabledUnits", <<>>),
        mapPool |-> pool, turnTimers |-> RANKED_TURN_TIMERS,
        fogRule |-> RANKED_FOG_RULE]

\* createRankedServer(overrides): the configuration is created and the
\* session constructed with it.
InitRanked ==
    /\ InitMaster
    /\ InitLib
    /\ \E o \in Overrides, r \in 0 .. (RandomSteps - 1) :
          /\ callArgs = [fn |-> "createRankedGameConfig", overrides |-> o, random |-> r]
          /\ callResult = [done |-> TRUE, threw |-> FALSE,
                           value |-> createRankedGameConfig(o, r)]
          /\ InitServer(createRankedGameConfig(o, r))

\* A ranked session that takes any gameMap.
GameMapAcceptedAlways(cfg, candidate) == TRUE

\* A ranked session takes a gameMap only from RANKED_MAP_POOL.
GameMapAccepted(cfg, candidate) ==
    cfg.gameType = "Ranked" => candidate \in Range(RANKED_MAP_POOL)

\* The ranked maps of the submitted pool, in the order of RANKED_MAP_POOL.
StoredMapPoolCanonical(cfg, submitted) ==
    IF cfg.gameType = "Ranked"
    THEN SelectSeq(RANKED_MAP_POOL, LAMBDA m : m \in Range(submitted))
    ELSE submitted

\* A ranked session stores the submitted pool without the entries that are
\* not in RANKED_MAP_POOL.
StoredMapPool(cfg, submitted) ==
    IF cfg.gameType = "Ranked"
    THEN SelectSeq(submitted, LAMBDA m : m \in Range(RANKED_MAP_POOL))
    ELSE submitted

\* The updates a caller submits: a gameMap or a mapPool.
MapUpdates ==
    { [gameMap |-> m] : m \in GameMapTypes } \cup { [mapPool |-> p] : p \in SubmittedPools }

\* The configuration updateGameConfig(update) leaves.
UpdatedConfig(cfg, update) ==
    LET withMap == IF Has(update, "gameMap") /\ GameMapAccepted(cfg, update.gameMap)
                   THEN [cfg EXCEPT !.gameMap = update.gameMap] ELSE cfg
    IN IF Has(update, "mapPool")
       THEN [withMap EXCEPT !.mapPool = StoredMapPool(cfg, update.mapPool)]
       ELSE withMap

\* updateGameConfig({gameMap}) and updateGameConfig({mapPool}): a value the
\* session does not take is dropped without an error.
UpdateMapConfig(update) ==
    /\ gameConfig' = UpdatedConfig(gameConfig, update)
    /\ lastRead' = [op |-> "updateGameConfig", update |-> update,
                    before |-> gameConfig, threw |-> FALSE]
    /\ callArgs' = NoArgs
    /\ callResult' = NotRun
    /\ UNCHANGED <<now, masterVars, libVars, createdAt, activeClients, hasStarted,
                   lastPingUpdate, queueReads>>

\* ------------------------------------------------ team-setup validation
Max(a, b) == IF a >= b THEN a ELSE b

\* Division rounded down.
FloorDiv(a, b) == a \div b

\* Math.ceil(a / b)
CeilDiv(a, b) == (a + b - 1) \div b

\* TeamCountConfig: a number, or the name of a policy; type is its typeof.
TeamCountConfigs ==
    { [type |-> "number", number |-> n, name |-> ""] : n \in 0 .. MaxTeams }
    \cup { [type |-> "string", number |-> 0, name |-> v] :
              v \in {"Duos", "Trios", "Quads", "Squads"} }

\* An unknown policy counted as no team at all.
resolveTeamCountLenient(teamConfig, totalPlayers) ==
    IF teamConfig.type = "number" THEN [threw |-> FALSE, value |-> teamConfig.number]
    ELSE IF teamConfig.name = "Duos"
         THEN [threw |-> FALSE, value |-> CeilDiv(totalPlayers, 2)]
    ELSE IF teamConfig.name = "Trios"
         THEN [threw |-> FALSE, value |-> CeilDiv(totalPlayers, 3)]
    ELSE IF teamConfig.name = "Quads"
         THEN [threw |-> FALSE, value |-> CeilDiv(totalPlayers, 4)]
    ELSE [threw |-> FALSE, value |-> 0]

resolveTeamCount(teamConfig, totalPlayers) ==
    IF teamConfig.type = "number" THEN [threw |-> FALSE, value |-> teamConfig.number]
    ELSE IF teamConfig.name = "Duos"
         THEN [threw |-> FALSE, value |-> CeilDiv(totalPlayers, 2)]
    ELSE IF teamConfig.name = "Trios"
         THEN [threw |-> FALSE, value |-> CeilDiv(totalPlayers, 3)]
    ELSE IF teamConfig.name = "Quads"
         THEN [threw |-> FALSE, value |-> CeilDiv(totalPlayers, 4)]
    ELSE [threw |-> TRUE, error |-> "Error", message |-> "Unknown TeamCountConfig"]

\* A validator that checks every game mode.
IsTeamGameAlways(config) == TRUE

\* config.gameConfig().gameMode === GameMode.Team
IsTeamGame(config) == config.gameMode = "Team"

Returned == [done |-> TRUE, threw |-> FALSE]

ensureValidTeamSetup(config, terrainData, humanCount, disableNPCs) ==
    IF ~IsTeamGame(config) THEN Returned
    ELSE LET npcCount == IF disableNPCs THEN 0 ELSE terrainData.nations
             actualPlayers == humanCount + npcCount
             configuredHumanCapacity ==
                 IF config.maxPlayers # Undefined THEN config.maxPlayers ELSE humanCount
             configuredTotalPlayers == configuredHumanCapacity + npcCount
             totalPlayers == Max(actualPlayers, configuredTotalPlayers)
             teamCount == resolveTeamCount(config.playerTeams, totalPlayers)
         IN IF teamCount.threw
            THEN [done |-> TRUE, threw |-> TRUE, error |-> teamCount.error,
                  message |-> teamCount.message]
            ELSE IF teamCount.value < 2
            THEN [done |-> TRUE, threw |-> TRUE, error |-> "TooFewTeamsError",
                  teamCount |-> teamCount.value]
            ELSE Returned

\* The calls of ensureValidTeamSetup: any game mode, policy, capacity, human
\* count, nation count and NPC flag (48 is the capacity of the test).
TeamSetupCalls ==
    { [fn |-> "ensureValidTeamSetup",
       config |-> [gameMode |-> gm, maxPlayers |-> mp, playerTeams |-> pt],
       terrainData |-> [nations |-> n], humanCount |-> h, disableNPCs |-> d] :
        gm \in {"FFA", "Team"}, mp \in {Undefined, 48} \cup (0 .. MaxTeamPlayers),
        pt \in TeamCountConfigs, n \in 0 .. MaxNations, h \in 0 .. MaxTeamPlayers,
        d \in BOOLEAN }

InitTeams ==
    /\ InitMaster
    /\ InitLib
    /\ InitServer([gameType |-> "Public", maxPlayers |-> Undefined])
    /\ callArgs \in TeamSetupCalls
    /\ callResult = NotRun

\* The call runs.
EnsureValidTeamSetup ==
    /\ callArgs.fn = "ensureValidTeamSetup"
    /\ ~callResult.done
    /\ callResult' = ensureValidTeamSetup(callArgs.config, callArgs.terrainData,
                                          callArgs.humanCount, callArgs.disableNPCs)
    /\ UNCHANGED <<now, masterVars, sessionVars, libVars, callArgs>>

\* ------------------------------------------------------ terrain loader
\* DataView.setUint32(offset, value, true): the four bytes, lowest first.
setUint32(value) ==
    <<value % 256, (value \div 256) % 256, (value \div 65536) % 256,
      (value \div 16777216) % 256>>

\* The four bytes read highest first.
getUint32BigEndian(data, byteOffset) ==
    data[byteOffset + 1] * 16777216 + data[byteOffset + 2] * 65536
        + data[byteOffset + 3] * 256 + data[byteOffset + 4]

\* DataView.getUint32(byteOffset, true)
getUint32(data, byteOffset) ==
    data[byteOffset + 1] + data[byteOffset + 2] * 256
        + data[byteOffset + 3] * 65536 + data[byteOffset + 4] * 16777216

\* data.subarray(begin, end)
Subarray(data, begin, end) == SubSeq(data, begin + 1, end)

Thrown(message) == [done |-> TRUE, threw |-> TRUE, message |-> message]

genTerrainFromBin(mapData, data) ==
    LET expectedLength == mapData.width * mapData.height
        extraBytes == Len(data) - expectedLength
        headerWidth == getUint32(data, 0)
        headerHeight == getUint32(data, 4)
        numLandTiles == IF extraBytes = 12 THEN getUint32(data, 8)
                        ELSE IF extraBytes = 4 THEN getUint32(data, 0)
                        ELSE mapData.num_land_tiles
        offset == IF extraBytes \in {4, 8, 12} THEN extraBytes ELSE 0
    IN IF Len(data) < expectedLength THEN Thrown("too small")
       ELSE IF extraBytes \in {4, 8, 12}
               /\ extraBytes >= 8
               /\ (headerWidth # mapData.width \/ headerHeight # mapData.height)
       THEN Thrown("embedded dimensions")
       ELSE IF extraBytes \notin {4, 8, 12} /\ extraBytes # 0
       THEN Thrown("unexpected header bytes")
       ELSE [done |-> TRUE, threw |-> FALSE,
             value |-> [width |-> mapData.width, height |-> mapData.height,
                        terrainData |-> Subarray(data, offset, offset + expectedLength),
                        numLandTiles |-> numLandTiles]]

\* The values written into the header words.
HeaderWords == {1, 2, 17, 258}

\* The terrain bytes of a map with n tiles.
Terrain(n) == [i \in 1 .. n |-> i % 256]

\* A buffer as the map generator writes it: the first headerBytes bytes of
\* the three header words, then the terrain, `missing` bytes short.
TerrainBin(words, headerBytes, tiles, missing) ==
    SubSeq(setUint32(words[1]) \o setUint32(words[2]) \o setUint32(words[3])
               \o [i \in 1 .. MaxHeaderBytes |-> 0],
           1, headerBytes)
        \o Terrain(tiles - missing)

\* The calls of genTerrainFromBin.
TerrainCalls ==
    { [fn |-> "genTerrainFromBin",
       mapData |-> [width |-> w, height |-> h, num_land_tiles |-> 3],
       words |-> words,
       data |-> TerrainBin(words, hb, w * h, missing)] :
        w \in 1 .. MaxSide, h \in 1 .. MaxSide, hb \in 0 .. MaxHeaderBytes,
        missing \in 0 .. 1, words \in [1 .. 3 -> HeaderWords] }

InitTerrain ==
    /\ InitMaster
    /\ InitLib
    /\ InitServer([gameType |-> "Public", maxPlayers |-> Undefined])
    /\ callArgs \in TerrainCalls
    /\ callResult = NotRun

\* The call runs.
GenTerrainFromBin ==
    /\ callArgs.fn = "genTerrainFromBin"
    /\ ~callResult.done
    /\ callResult' = genTerrainFromBin(callArgs.mapData, callArgs.data)
    /\ UNCHANGED <<now, masterVars, sessionVars, libVars, callArgs>>

\* ------------------------------------------------------- worker client
INIT_TIMEOUT_MS == 20000

\* messageId = generateID() of the one initialize() call
MessageId == "init"

\* The identifiers a worker message carries: the one of the init request,
\* another one, none.
SentIds == {MessageId, "other", ""}

\* The message types: the two replies to init, a game update, any other.
MessageTypes == {"initialized", "init_error", "game_update", "other"}

\* What the worker sends or raises.
WorkerEventKinds ==
    { [kind |-> "message", type |-> t, id |-> i] : t \in MessageTypes, i \in SentIds }
        \cup { [kind |-> k, type |-> "", id |-> ""] : k \in {"error", "messageerror"} }

\* The time that passes before the next event is dispatched.
EventDelays == {0, INIT_TIMEOUT_MS \div 2}

\* The fields of the client and the variables initialize() closes over.
Client ==
    [isInitialized |-> isInitialized, messageHandlers |-> messageHandlers,
     workerListeners |-> workerListeners, settled |-> settled,
     timeoutId |-> timeoutId, promise |-> promise]

SetClient(c) ==
    /\ isInitialized' = c.isInitialized
    /\ messageHandlers' = c.messageHandlers
    /\ workerListeners' = c.workerListeners
    /\ settled' = c.settled
    /\ timeoutId' = c.timeoutId
    /\ promise' = c.promise

\* resolve() or reject() is called: only the first call settles the promise.
Settle(p, state, by) ==
    IF p.state = "pending"
    THEN [state |-> state, calls |-> p.calls + 1, by |-> by]
    ELSE [p EXCEPT !.calls = @ + 1]

cleanup(c) ==
    [c EXCEPT !.timeoutId = NoTimeout,
              !.messageHandlers = @ \ {MessageId},
              !.workerListeners = {}]

fail(c, by) ==
    IF c.settled THEN c
    ELSE [cleanup([c EXCEPT !.settled = TRUE]) EXCEPT
              !.promise = Settle(@, "rejected", by)]

\* A handler that takes every reply for 'initialized'.
IsInitializedReplyAny(message) == TRUE

\* message.type === "initialized"
IsInitializedReply(message) == message.type = "initialized"

\* The handler initialize() registers under messageId.
onInitReply(c, message) ==
    IF IsInitializedReply(message)
    THEN IF c.settled THEN c
         ELSE [cleanup([c EXCEPT !.settled = TRUE, !.isInitialized = TRUE]) EXCEPT
                   !.promise = Settle(@, "resolved", message.type)]
    ELSE IF message.type = "init_error" THEN fail(c, message.type)
    ELSE c

handleWorkerMessage(c, message) ==
    IF message.type = "game_update" THEN c
    ELSE IF message.id # "" /\ message.id \in c.messageHandlers
    THEN [onInitReply(c, message) EXCEPT !.messageHandlers = @ \ {message.id}]
    ELSE c

\* The worker dispatches an error or messageerror event to its listeners.
dispatchEvent(c, kind) ==
    IF kind \in c.workerListeners THEN fail(c, kind) ELSE c

\* The callback of the init timer.
onInitTimeout(c) ==
    IF ~c.isInitialized THEN fail(c, "timeout") ELSE [c EXCEPT !.timeoutId = NoTimeout]

NotClient == UNCHANGED <<masterVars, sessionVars, callVars, loaderVars, authVars>>

\* initialize(), called once
Initialize ==
    /\ promise.state = "none"
    /\ SetClient([Client EXCEPT
           !.settled = FALSE,
           !.workerListeners = {"error", "messageerror"},
           !.messageHandlers = @ \cup {MessageId},
           !.timeoutId = now + INIT_TIMEOUT_MS,
           !.promise = [state |-> "pending", calls |-> 0, by |-> "none"]])
    /\ UNCHANGED <<now, workerEvents>>
    /\ NotClient

\* The next event of the worker is dispatched, d ms after the last step and
\* not after the init timer is due.
WorkerEvent(d) ==
    /\ workerEvents.dispatched < Len(workerEvents.script)
    /\ timeoutId # NoTimeout => now + d <= timeoutId
    /\ now' = now + d
    /\ workerEvents' = [workerEvents EXCEPT !.dispatched = @ + 1]
    /\ LET e == workerEvents.script[workerEvents.dispatched + 1]
       IN SetClient(IF e.kind = "message" THEN handleWorkerMessage(Client, e)
                    ELSE dispatchEvent(Client, e.kind))
    /\ NotClient

\* The init timer fires.
InitTimeout ==
    /\ timeoutId # NoTimeout
    /\ now' = IF now >= timeoutId THEN now ELSE timeoutId
    /\ SetClient(onInitTimeout(Client))
    /\ UNCHANGED workerEvents
    /\ NotClient

\* ------------------------------------------------------ terrain cache
GameMapSizes == {"Normal", "Compact"}

\* The maps loadTerrainMap is called for.
LoadedMapTypes == {"World", "Europe"}

\* The side of a map's full-size, 4x and 16x terrain.
MapSide(map, scale) ==
    (IF map = "World" THEN 8 ELSE 4) \div (IF scale = "map" THEN 1 ELSE IF scale = "map4x" THEN 2 ELSE 4)

\* terrainMapFileLoader.getMapData(map): the manifest and the three binaries.
MapFiles(map) ==
    [manifest |->
        [map |-> [width |-> MapSide(map, "map"), height |-> 1, num_land_tiles |-> 3],
         map4x |-> [width |-> MapSide(map, "map4x"), height |-> 1, num_land_tiles |-> 2],
         map16x |-> [width |-> MapSide(map, "map16x"), height |-> 1, num_land_tiles |-> 1],
         nations |-> << [coordinates |-> <<MapSide(map, "map") - 1, 0>>] >>],
     mapBin |-> Terrain(MapSide(map, "map")),
     map4xBin |-> Terrain(MapSide(map, "map4x")),
     map16xBin |-> Terrain(MapSide(map, "map16x"))]

\* The body of loadTerrainMap after a cache miss: the result it builds.
BuildTerrainMap(map, mapSize) ==
    LET mapFiles == MapFiles(map)
        manifest == mapFiles.manifest
        gameMap == IF mapSize = "Normal"
                   THEN genTerrainFromBin(manifest.map, mapFiles.mapBin)
                   ELSE genTerrainFromBin(manifest.map4x, mapFiles.map4xBin)
        miniMap == IF mapSize = "Normal"
                   THEN genTerrainFromBin(IF mapSize = "Normal" THEN manifest.map4x
                                          ELSE manifest.map16x,
                                          mapFiles.map4xBin)
                   ELSE genTerrainFromBin(manifest.map16x, mapFiles.map16xBin)
        nations == IF mapSize = "Compact"
                   THEN [i \in DOMAIN manifest.nations |->
                            [coordinates |-> << manifest.nations[i].coordinates[1] \div 2,
                                                manifest.nations[i].coordinates[2] \div 2 >>]]
                   ELSE manifest.nations
    IN [nations |-> nations, gameMap |-> gameMap.value, miniGameMap |-> miniMap.value]

NotLoader == UNCHANGED <<now, masterVars, sessionVars, callVars, clientVars, authVars>>

\* loadTerrainMap(map, mapSize, loader) up to its first await: a cached
\* result is returned, otherwise the files are requested.
LoadTerrainMap(map, mapSize) ==
    /\ IF map \in DOMAIN loadedMaps
       THEN /\ lastLoad' = [done |-> TRUE, map |-> map, mapSize |-> mapSize,
                            cached |-> TRUE, value |-> loadedMaps[map]]
            /\ UNCHANGED pendingLoads
       ELSE /\ pendingLoads' = pendingLoads \cup {[map |-> map, mapSize |-> mapSize]}
            /\ lastLoad' = NoLoad
    /\ UNCHANGED loadedMaps
    /\ NotLoader

\* The files of a pending call have arrived: the result is built, cached under
\* the map and returned.
LoadSettles(l) ==
    /\ l \in pendingLoads
    /\ pendingLoads' = pendingLoads \ {l}
    /\ LET result == BuildTerrainMap(l.map, l.mapSize)
       IN /\ loadedMaps' = [m \in DOMAIN loadedMaps \cup {l.map} |->
                               IF m = l.map THEN result ELSE loadedMaps[m]]
          /\ lastLoad' = [done |-> TRUE, map |-> l.map, mapSize |-> l.mapSize,
                          cached |-> FALSE, value |-> result]
    /\ NotLoader

\* --------------------------------------------------------- auth router
SESSION_TTL_MS == 604800000

\* setExpirationTime("24h"), in seconds
TOKEN_TTL_S == 86400

Uuids == {"u1", "u2"}

\* The time that passes between two requests: half a token lifetime, a
\* session lifetime.
AuthDelays == {TOKEN_TTL_S * 500, SESSION_TTL_MS}

\* A request without an Authorization header.
NoToken == [present |-> FALSE, signed |-> FALSE, uuid |-> "", exp |-> 0]

\* Tokens that this server's key did not sign.
ForgedTokens ==
    { [present |-> TRUE, signed |-> FALSE, uuid |-> u,
       exp |-> (StartTime \div 1000) + (MaxAuthAdvances + 1) * (SESSION_TTL_MS \div 1000)] :
        u \in Uuids }

\* issueJwt(subject) at Date.now() = at
issueJwt(uuid, at) ==
    [present |-> TRUE, signed |-> TRUE, uuid |-> uuid, exp |-> (at \div 1000) + TOKEN_TTL_S]

\* validateAppToken(token): jwtVerify checks the signature and the exp claim.
validateAppToken(token, at) == token.signed /\ token.exp > at \div 1000

NoEntry == [found |-> FALSE, expiresAt |-> 0]

storeUser(store, uuid, at) ==
    [u \in DOMAIN store \cup {uuid} |->
        IF u = uuid THEN [expiresAt |-> at + SESSION_TTL_MS] ELSE store[u]]

\* sessionStore.delete(uuid)
Deleted(store, uuid) == [u \in DOMAIN store \ {uuid} |-> store[u]]

\* getStoredUser(uuid): the entry it returns and the store it leaves.
getStoredUser(store, uuid, at) ==
    IF uuid \notin DOMAIN store THEN [store |-> store, entry |-> NoEntry]
    ELSE IF store[uuid].expiresAt <= at
    THEN [store |-> Deleted(store, uuid), entry |-> NoEntry]
    ELSE [store |-> store, entry |-> [found |-> TRUE, expiresAt |-> store[uuid].expiresAt]]

\* A refresh that leaves the expiry where it was.
touchUserKeepsExpiry(store, uuid, at) == getStoredUser(store, uuid, at)

\* touchUser(uuid)
touchUser(store, uuid, at) ==
    LET got == getStoredUser(store, uuid, at)
    IN IF ~got.entry.found THEN got
       ELSE LET stored == storeUser(got.store, uuid, at)
            IN [store |-> stored,
                entry |-> [found |-> TRUE, expiresAt |-> stored[uuid].expiresAt]]

\* The tokens a request may carry.
RequestTokens == {NoToken} \cup ForgedTokens \cup issuedTokens

Response(route, token, status, error) ==
    [route |-> route, token |-> token, at |-> now, before |-> sessionStore,
     status |-> status, error |-> error]

NotAuth == UNCHANGED <<masterVars, sessionVars, callVars, clientVars, loaderVars>>

\* GET /login/google with a code Google accepts for a verified user.
Login(uuid) ==
    /\ issuedTokens' = issuedTokens \cup {issueJwt(uuid, now)}
    /\ sessionStore' = storeUser(sessionStore, uuid, now)
    /\ lastResponse' = Response("login", issueJwt(uuid, now), 302, "")
    /\ UNCHANGED now
    /\ NotAuth

\* POST /refresh
Refresh(token) ==
    /\ token \in RequestTokens
    /\ IF ~token.present
       THEN /\ lastResponse' = Response("refresh", token, 401, "unauthorized")
            /\ UNCHANGED <<sessionStore, issuedTokens>>
       ELSE IF ~validateAppToken(token, now)
       THEN /\ lastResponse' = Response("refresh", token, 401, "invalid_token")
            /\ UNCHANGED <<sessionStore, issuedTokens>>
       ELSE LET profile == touchUser(sessionStore, token.uuid, now)
            IN /\ sessionStore' = profile.store
               /\ IF ~profile.entry.found
                  THEN /\ lastResponse' = Response("refresh", token, 401, "session_not_found")
                       /\ UNCHANGED issuedTokens
                  ELSE /\ lastResponse' = Response("refresh", token, 200, "")
                       /\ issuedTokens' = issuedTokens \cup {issueJwt(token.uuid, now)}
    /\ UNCHANGED now
    /\ NotAuth

\* POST /logout and POST /revoke: handleLogout, then 204.
Logout(route, token) ==
    /\ token \in RequestTokens
    /\ sessionStore' = IF token.present /\ validateAppToken(token, now)
                       THEN Deleted(sessionStore, token.uuid)
                       ELSE sessionStore
    /\ lastResponse' = Response(route, token, 204, "")
    /\ UNCHANGED <<now, issuedTokens>>
    /\ NotAuth

\* GET /users/@me
UsersMe(token) ==
    /\ token \in RequestTokens
    /\ IF ~token.present
       THEN /\ lastResponse' = Response("users/@me", token, 401, "unauthorized")
            /\ UNCHANGED sessionStore
       ELSE IF ~validateAppToken(token, now)
       THEN /\ lastResponse' = Response("users/@me", token, 401, "invalid_token")
            /\ UNCHANGED sessionStore
       ELSE LET profile == getStoredUser(sessionStore, token.uuid, now)
            IN /\ sessionStore' = profile.store
               /\ lastResponse' = Response("users/@me", token,
                                           IF profile.entry.found THEN 200 ELSE 401,
                                           IF profile.entry.found THEN "" ELSE "session_not_found")
    /\ UNCHANGED <<now, issuedTokens>>
    /\ NotAuth

\* Time passes between two requests.
AuthAdvance(d) ==
    /\ advances < MaxAuthAdvances
    /\ advances' = advances + 1
    /\ now' = now + d
    /\ lastResponse' = NoResponse
    /\ UNCHANGED <<procs, wedged, readyWorkers, timerDue, lastRankedScheduledAt,
                   publicLobbiesJsonStr, publicLobbyIDs, nextGameID, inflight, creates,
                   kicks, lastKick, lastGet, lastCall, lastTick, failedSincePublish>>
    /\ UNCHANGED <<sessionStore, issuedTokens>>
    /\ UNCHANGED <<sessionVars, callVars, clientVars, loaderVars>>

\* ------------------------------------------------------ specifications
\* The reconciliation loop against its workers.
Next ==
    \/ \E w \in WorkerIds : WorkerReady(w)
    \/ \E i \in 1 .. MaxLoops : IntervalFire(i)
    \/ \E p \in PendingStatus : StatusResponse(p[1], p[2])
    \/ \E p \in PendingStatus : StatusFailure(p[1], p[2])
    \/ \E c \in creates, ok \in BOOLEAN : CreateResponse(c, ok)
    \/ \E d \in Delays : Advance(d)

Spec == Init /\ [][Next]_vars

\* The worker lifecycle: readiness, exits and the loop they start, against
\* workers whose status requests fail.
\* generateID() has identifiers left in a run of the worker lifecycle.
WithinWorkerGames == nextGameID' <= MaxWorkerGames + 1

NextWorkers ==
    \/ \E w \in WorkerIds : WorkerReady(w) /\ WithinWorkerGames
    \/ \E w \in WorkerIds, envId \in BOOLEAN : WorkerExit(w, envId)
    \/ \E i \in 1 .. MaxLoops : IntervalFire(i) /\ WithinWorkerGames
    \/ \E p \in PendingStatus : StatusFailure(p[1], p[2]) /\ WithinWorkerGames
    \/ \E c \in creates, ok \in BOOLEAN : CreateResponse(c, ok)
    \/ \E d \in Delays : Advance(d)

SpecWorkers == Init /\ [][NextWorkers]_vars

\* The HTTP endpoints of the master and every coordinator-to-worker call:
\* status requests, create-game calls and the kick-player proxy, against
\* workers whose status requests fail.
NextCalls ==
    \/ \E w \in WorkerIds : WorkerReady(w)
    \/ \E i \in 1 .. MaxLoops : IntervalFire(i)
    \/ \E p \in PendingStatus : StatusFailure(p[1], p[2])
    \/ \E c \in creates, ok \in BOOLEAN : CreateResponse(c, ok)
    \/ \E authOk \in BOOLEAN, idsOk \in BOOLEAN, g \in 1 .. MaxGames :
          KickRequest(authOk, idsOk, g)
    \/ \E c \in kicks, ok \in BOOLEAN : KickResponse(c, ok)
    \/ GetPublicLobbies
    \/ \E d \in Delays : Advance(d)

SpecCalls == Init /\ [][NextCalls]_vars

\* A worker fails only while another worker keeps answering.
OthersAnswer(w) == \E v \in WorkerIds \ {w} : Responsive(v)

\* A status request settles as the state of the owning worker decides: a
\* responsive worker answers, the connection to a worker that is not
\* listening fails, and a request to a wedged worker ends with its abort.
SettleLive(k, g) ==
    \/ Responsive(WorkerIndex(g)) /\ StatusResponse(k, g)
    \/ procs[WorkerIndex(g)] # "listening" /\ StatusFailure(k, g)
    \/ WorkerIndex(g) \in wedged /\ StatusTimeout(k, g)

\* A create-game call settles likewise; one sent to a wedged worker stays open.
CreateLive(c, ok) ==
    /\ \/ Responsive(WorkerIndex(c.gameID))
       \/ procs[WorkerIndex(c.gameID)] # "listening" /\ ~ok
    /\ CreateResponse(c, ok)

\* The reconciliation loop while workers wedge and crash.
NextLive ==
    \/ \E w \in WorkerIds : WorkerReady(w)
    \/ \E w \in WorkerIds : OthersAnswer(w) /\ WorkerWedge(w)
    \/ \E w \in WorkerIds : OthersAnswer(w) /\ WorkerExit(w, FALSE)
    \/ \E i \in 1 .. MaxLoops : IntervalFire(i)
    \/ \E p \in PendingStatus : SettleLive(p[1], p[2])
    \/ \E c \in creates, ok \in BOOLEAN : CreateLive(c, ok)
    \/ advances < MaxLiveAdvances /\ Advance(INTERVAL_MS)

\* Requests that can settle do: workers answer, connections fail and abort
\* timers fire.
FairLive == WF_vars(\E p \in PendingStatus : SettleLive(p[1], p[2]))

SpecLive == Init /\ [][NextLive]_vars /\ FairLive

\* One game session: its clients, the simulation driver, configuration
\* updates and the clock.
InitSession == InitMaster /\ InitCalls /\ InitLib /\ \E cfg \in SessionConfigs : InitServer(cfg)

NextSession ==
    \/ PhaseQuery
    \/ GameInfoQuery
    \/ \E n \in 0 .. MaxClients : SetActiveClients(n)
    \/ Start
    \/ SetLastPingUpdate(now)
    \/ \E mp \in 1 .. MaxClients : UpdateGameConfig(mp)
    \/ \E d \in SessionDelays : SetSystemTime(d)

SpecSession == InitSession /\ [][NextSession]_vars

\* scheduleLobby called with configurations of every game type, and the
\* answers to its create-game calls.
NextSchedule ==
    \/ \E gameType \in SessionGameTypes : ScheduleLobby(gameType)
    \/ \E c \in creates, ok \in BOOLEAN : CreateResponse(c, ok)

SpecSchedule == Init /\ [][NextSchedule]_vars

\* A ranked session created from the preset, and the map updates it gets.
NextRanked == \E update \in MapUpdates : UpdateMapConfig(update)

SpecRanked == InitRanked /\ [][NextRanked]_vars

\* The team-setup validator on any call.
NextTeams == EnsureValidTeamSetup

SpecTeams == InitTeams /\ [][NextTeams]_vars

\* The terrain loader on any buffer.
NextTerrain == GenTerrainFromBin

SpecTerrain == InitTerrain /\ [][NextTerrain]_vars

\* One initialize() call against a worker that sends up to MaxEvents events.
InitClient ==
    /\ InitMaster
    /\ InitServer([gameType |-> "Public", maxPlayers |-> Undefined])
    /\ InitCalls
    /\ InitWorkerClient
    /\ workerEvents \in [script : SeqsUpTo(WorkerEventKinds, MaxEvents), dispatched : {0}]
    /\ InitLoader
    /\ InitAuth

NextClient ==
    \/ Initialize
    \/ \E d \in EventDelays : WorkerEvent(d)
    \/ InitTimeout

\* setTimeout: an armed timer that is not cleared fires.
FairClient == WF_vars(InitTimeout)

SpecClient == InitClient /\ [][NextClient]_vars /\ FairClient

NextLoader ==
    \/ \E map \in LoadedMapTypes, mapSize \in GameMapSizes : LoadTerrainMap(map, mapSize)
    \/ \E l \in pendingLoads : LoadSettles(l)

SpecLoader == Init /\ [][NextLoader]_vars

NextAuth ==
    \/ \E uuid \in Uuids : Login(uuid)
    \/ \E token \in RequestTokens : Refresh(token)
    \/ \E route \in {"logout", "revoke"}, token \in RequestTokens : Logout(route, token)
    \/ \E token \in RequestTokens : UsersMe(token)
    \/ \E d \in AuthDelays : AuthAdvance(d)

SpecAuth == Init /\ [][NextAuth]_vars

\* ================================================================ claims
\* The polled lobbies of the tick completed by the last step.
Polled == { lastTick.entries[i].gameID : i \in 1 .. Len(lastTick.entries) }

PolledType(g) ==
    (CHOOSE e \in { lastTick.entries[i] : i \in 1 .. Len(lastTick.entries) } :
        e.gameID = g).gameType

\* One of the four drop conditions holds for the result the tick got for g.
FailedRequest(g) == lastTick.results[g] = Null

NoGameConfig(g) == ~FailedRequest(g) /\ ~lastTick.results[g].hasConfig

StartsSoon(g) ==
    /\ ~FailedRequest(g) /\ ~NoGameConfig(g)
    /\ MsUntilStartOf(lastTick.results[g], lastTick.at) <= START_SOON_MS

AtCapacity(g) ==
    /\ ~FailedRequest(g) /\ ~NoGameConfig(g)
    /\ lastTick.results[g].maxPlayers # Undefined
    /\ NumClientsOf(lastTick.results[g]) >= lastTick.results[g].maxPlayers

Unhealthy(g) == FailedRequest(g) \/ NoGameConfig(g) \/ StartsSoon(g) \/ AtCapacity(g)

Tracked == DOMAIN publicLobbyIDs

SnapshotIDs ==
    { publicLobbiesJsonStr.lobbies[j].gameID : j \in 1 .. Len(publicLobbiesJsonStr.lobbies) }

\* Surviving lobbies of a type: the polled lobbies of that type that the
\* tick found healthy.
Surviving(ty) == { g \in Polled : PolledType(g) = ty /\ ~Unhealthy(g) }

CreatedOf(ty) == { c \in lastTick.created : c.gameType = ty }

\* C1: at most one reconciliation tick is in progress at any time.
C1_OneTickInProgress == Len(inflight) <= 1

\* C2 as stated: after a tick has processed its results, a polled lobby is
\* absent from the registry if one of the four drop conditions holds for it,
\* and is in the registry otherwise.
C2_DroppedIffUnhealthy ==
    lastTick.done => \A g \in Polled : (g \notin Tracked) <=> Unhealthy(g)

\* C2 amended: an unhealthy polled lobby is absent from the registry; a
\* healthy one is in the registry exactly if it still was when the tick
\* began to process its results (the failure handler of a concurrent status
\* request or create-game call for it may have removed it before).
C2_ProcessingDropsExactlyUnhealthy ==
    lastTick.done =>
        \A g \in Polled :
            /\ Unhealthy(g) => g \notin Tracked
            /\ ~Unhealthy(g) => (g \in Tracked <=> g \in lastTick.before)

C2_Witness ==
    /\ lastTick.done
    /\ \E g \in Polled : ~Unhealthy(g) /\ g \notin Tracked
    /\ \E g \in Polled : StartsSoon(g)

\* C3: a lobby whose status request failed or timed out is absent from the
\* next snapshot the coordinator publishes.
C3_FailedAbsentFromNextSnapshot ==
    lastTick.done => SnapshotIDs \cap lastTick.failedBefore = {}

C5_OnePublicCreateIffNone ==
    lastTick.done =>
        /\ Cardinality(CreatedOf("Public")) = IF Surviving("Public") = {} THEN 1 ELSE 0
        /\ lastTick.created \subseteq creates
        /\ \A c \in lastTick.created : c.gameID \in Tracked /\ c.sentAt = lastTick.at

C5_Witness ==
    /\ lastTick.done
    /\ Polled # {}
    /\ Surviving("Public") = {}
    /\ Surviving("Ranked") # {}
    /\ Cardinality(CreatedOf("Public")) = 1

\* C6: with zero surviving ranked lobbies a tick schedules no ranked lobby
\* while the marker is less than the cooldown old, and exactly one, setting
\* the marker to the current time, once the cooldown has elapsed.
C6_RankedCooldown ==
    (lastTick.done /\ Surviving("Ranked") = {}) =>
        IF lastTick.at - lastTick.markerBefore < RANKED_QUEUE_COOLDOWN_MS
        THEN /\ CreatedOf("Ranked") = {}
             /\ lastRankedScheduledAt = lastTick.markerBefore
        ELSE /\ Cardinality(CreatedOf("Ranked")) = 1
             /\ lastRankedScheduledAt = lastTick.at

C6_Witness ==
    /\ lastTick.done
    /\ Surviving("Ranked") = {}
    /\ lastTick.markerBefore # 0
    /\ lastTick.at - lastTick.markerBefore >= RANKED_QUEUE_COOLDOWN_MS
    /\ Cardinality(CreatedOf("Ranked")) = 1

\* C7: a failed create-game call of a ranked attempt resets the cooldown
\* marker to zero; the marker stays zero until a tick schedules a ranked
\* lobby, and a tick that sees zero ranked lobbies with the marker at zero
\* schedules one.
C7_FailedRankedRetriesAtOnce ==
    /\ [](/\ (lastCall.kind = "create" /\ ~lastCall.ok /\ lastCall.gameType = "Ranked")
                => lastRankedScheduledAt = 0
          /\ (lastTick.done /\ lastTick.markerBefore = 0 /\ Surviving("Ranked") = {})
                => Cardinality(CreatedOf("Ranked")) = 1)
    /\ [][(lastRankedScheduledAt = 0 /\ lastRankedScheduledAt' # 0)
            => (lastTick'.done /\ \E c \in lastTick'.created : c.gameType = "Ranked")]_vars

C7_Witness ==
    /\ lastTick.done
    /\ Polled # {}
    /\ lastTick.markerBefore = 0
    /\ lastTick.at - StartTime < RANKED_QUEUE_COOLDOWN_MS
    /\ Cardinality(CreatedOf("Ranked")) = 1

\* C8 as stated: no coordinator-to-worker call (status request, create-game
\* call, kick-player proxy) stays pending for more than 5 s, and a call that
\* failed or timed out has removed its lobby from the registry.
C8_EveryCallAbortsAndDrops ==
    /\ \A p \in PendingStatus : now - inflight[p[1]].sentAt <= ABORT_TIMEOUT_MS
    /\ \A c \in creates \cup kicks : now - c.sentAt <= ABORT_TIMEOUT_MS
    /\ (lastCall.kind # "none" /\ ~lastCall.ok) => lastCall.gameID \notin Tracked

\* C8 amended: no status request stays pending for more than 5 s; a failed or
\* timed-out status request and a failed create-game call have removed their
\* lobby from the registry, and a removed lobby is never registered again; a
\* kick-player call that settles leaves the registry as it was.
C8_StatusAbortsAndFailuresDrop ==
    /\ [](\A p \in PendingStatus : now - inflight[p[1]].sentAt <= ABORT_TIMEOUT_MS)
    /\ []((lastCall.kind \in {"status", "create"} /\ ~lastCall.ok)
            => lastCall.gameID \notin Tracked)
    /\ [][lastCall'.kind = "kick" => publicLobbyIDs' = publicLobbyIDs]_vars
    /\ [][\A g \in 1 .. MaxGames :
            (g < nextGameID /\ g \notin Tracked) => g \notin DOMAIN publicLobbyIDs']_vars

C8_Witness ==
    /\ lastCall.kind = "status" /\ ~lastCall.ok
    /\ lastCall.gameID \notin Tracked
    /\ \E c \in creates : now - c.sentAt > ABORT_TIMEOUT_MS
    /\ \E c \in kicks : now - c.sentAt > ABORT_TIMEOUT_MS

\* C9: no status request and no create-game call is issued before
\* WORKER_READY has been received from every expected worker.
C9_NoCallBeforeAllReady ==
    (inflight # <<>> \/ creates # {} \/ nextGameID > 1 \/ publicLobbiesJsonStr.published)
        => readyWorkers = WorkerIds

C9_Witness ==
    /\ inflight # <<>>
    /\ readyWorkers = WorkerIds
    /\ \E w \in WorkerIds : procs[w] = "forked"

\* C10: whenever a worker process exits, a replacement with the same worker
\* index is forked.
C10_ExitForksReplacement ==
    [][\A w \in WorkerIds : procs[w] # "none" => procs'[w] # "none"]_vars

\* C12: GET /api/public_lobbies answers with the last-published snapshot, a
\* serialized object of the form { lobbies: [...] }, at any time after the
\* coordinator started serving.
C12_ServesSnapshotObject ==
    lastGet.served =>
        /\ lastGet.body = publicLobbiesJsonStr
        /\ lastGet.body.published

\* C13: the kick-player endpoint answers 401 whenever the admin header does
\* not match, and then forwards nothing; it answers 200 when the forwarded
\* call succeeds and 500 when it fails or the worker answers non-OK.
C13_KickStatusCodes ==
    /\ []((lastKick # NoKick /\ ~lastKick.authOk)
            => (lastKick.status = 401 /\ ~lastKick.forwarded))
    /\ [](lastCall.kind = "kick"
            => lastKick.status = IF lastCall.ok THEN 200 ELSE 500)
    /\ [](lastKick.status \in {200, 500} => lastCall.kind = "kick")
    /\ [][lastKick'.status = 401 => kicks' = kicks]_vars

C13_Witness ==
    /\ lastKick.status = 401
    /\ ~lastKick.authOk /\ lastKick.idsOk
    /\ kicks # {}

\* C14: the kick-player endpoint leaves the registry, the published snapshot
\* and the ranked cooldown marker as they were, on every outcome (401, 400,
\* 200, 500) and when it forwards the call.
C14_KickLeavesCoordinatorState ==
    [][lastKick' # NoKick =>
        /\ publicLobbyIDs' = publicLobbyIDs
        /\ publicLobbiesJsonStr' = publicLobbiesJsonStr
        /\ lastRankedScheduledAt' = lastRankedScheduledAt]_vars

C14_Witness ==
    /\ lastKick.status = 500
    /\ lastCall.kind = "kick" /\ ~lastCall.ok
    /\ lastCall.gameID \in Tracked
    /\ publicLobbiesJsonStr.published

\* The values Date.now() takes while ticks start and abort timers fire.
ClockValues ==
    { StartTime + a * INTERVAL_MS + b * ABORT_TIMEOUT_MS :
        a \in 0 .. MaxLiveAdvances, b \in 0 .. MaxGames }

\* The run has no identifier left for the lobbies a completing tick schedules.
IdsShort ==
    nextGameID + (IF CooldownElapsed(now + ABORT_TIMEOUT_MS, lastRankedScheduledAt)
                  THEN 1 ELSE 0) > MaxGames

\* C11: while a worker is wedged or has crashed and another one answers,
\* the ticks in progress all complete, each no later than 5 s after it
\* began (as long as the run has identifiers left); the snapshot a tick
\* publishes lists every polled lobby whose worker answered with a healthy
\* status; and when no public lobby survives, the tick schedules a new one,
\* which is tracked.
C11_FailedWorkerFreezesNothing ==
    /\ (inflight # <<>>) ~> (inflight = <<>> \/ IdsShort)
    /\ [](now \in ClockValues)
    /\ [](lastTick.done =>
            /\ lastTick.at - lastTick.sentAt <= ABORT_TIMEOUT_MS
            /\ publicLobbiesJsonStr.published
            /\ publicLobbiesJsonStr.lobbies = lastTick.listed
            /\ \A g \in Polled : ~Unhealthy(g) => g \in SnapshotIDs
            /\ Surviving("Public") = {} =>
                    \E c \in CreatedOf("Public") : c \in creates /\ c.gameID \in Tracked)

C11_Witness ==
    /\ lastTick.done
    /\ lastTick.at - lastTick.sentAt = ABORT_TIMEOUT_MS
    /\ \E g \in Polled : FailedRequest(g) /\ WorkerIndex(g) \in wedged
    /\ \E g \in Polled : ~Unhealthy(g) /\ Responsive(WorkerIndex(g)) /\ g \in SnapshotIDs
    /\ Surviving("Public") = {}
    /\ \E c \in CreatedOf("Public") : c.gameID \in Tracked

\* The session is ranked and its game has not been started.
RankedNotStarted == gameConfig.gameType = "Ranked" /\ ~hasStarted

\* C15: phase() of a ranked session that has not been started returns Queue
\* exactly while the roster is below maxPlayers and the clock has not passed
\* creationTime + queueSeconds*1000, and Lobby otherwise.
C15_QueueUntilFullOrDeadline ==
    (lastRead.op = "phase" /\ RankedNotStarted) =>
        lastRead.phase =
            IF /\ activeClients < MaxPlayersOf(gameConfig)
               /\ now <= createdAt + QUEUE_SECONDS * 1000
            THEN "Queue" ELSE "Lobby"

C15_Witness ==
    /\ lastRead.op = "phase" /\ RankedNotStarted
    /\ lastRead.phase = "Lobby"
    /\ activeClients = MaxPlayersOf(gameConfig)
    /\ now < createdAt + QUEUE_SECONDS * 1000

\* C16: once phase() is Finished it is Finished ever after, whatever roster
\* changes, liveness-timestamp updates, configuration updates and clock
\* advances happen.
C16_FinishedIsTerminal == [][Phase = "Finished" => Phase' = "Finished"]_vars

\* C17: phase() returns Active only if hasStarted is set; no step except the
\* setting of hasStarted moves a session from Lobby to Active; and a started
\* session with a fresh liveness timestamp is Active.
C17_ActiveOnlyByStart ==
    /\ []((lastRead.op = "phase" /\ lastRead.phase = "Active") => hasStarted)
    /\ [](Phase = "Active" => hasStarted)
    /\ [][(Phase = "Lobby" /\ Phase' = "Active") => (~hasStarted /\ hasStarted')]_vars
    /\ []((lastRead.op = "phase" /\ hasStarted /\ now - lastPingUpdate <= PING_STALE_MS)
            => lastRead.phase = "Active")

C17_Witness ==
    /\ lastRead.op = "phase" /\ lastRead.phase = "Lobby"
    /\ ~hasStarted
    /\ now > createdAt + (QUEUE_SECONDS + LOBBY_SECONDS) * 1000
    /\ activeClients = 0

C19_NoQueueUnlessRanked ==
    gameConfig.gameType # "Ranked" =>
        /\ Phase \in {"Lobby", "Active", "Finished"}
        /\ ~hasStarted => Phase = "Lobby"
        /\ lastRead.op \in {"phase", "gameInfo"} => lastRead.phase = Phase

C19_Witness ==
    /\ gameConfig.gameType = "Public"
    /\ lastRead.op = "phase" /\ lastRead.phase = "Lobby"
    /\ activeClients < MaxPlayersOf(gameConfig)
    /\ now = createdAt

\* C20: every msUntilStart that gameInfo() returns while a ranked session is
\* in Queue is creationTime + queueSeconds*1000, so any two reads return the
\* same value; and a read changes no session state.
C20_QueueDeadlineFixed ==
    /\ [](\A r \in queueReads : r.msUntilStart = createdAt + QUEUE_SECONDS * 1000)
    /\ [](\A r1 \in queueReads, r2 \in queueReads : r1.msUntilStart = r2.msUntilStart)
    /\ [][lastRead'.op = "gameInfo" =>
            UNCHANGED <<now, createdAt, gameConfig, activeClients, hasStarted,
                        lastPingUpdate>>]_vars

C20_Witness ==
    /\ lastRead.op = "gameInfo" /\ lastRead.phase = "Queue"
    /\ \E r1 \in queueReads, r2 \in queueReads : r1.at # r2.at
    /\ lastRead.msUntilStart = createdAt + QUEUE_SECONDS * 1000

\* C21: the gameMap of a ranked session is a member of its mapPool, after
\* creation with any overrides and after every configuration update.
C21_GameMapInMapPool ==
    gameConfig.gameType = "Ranked" => gameConfig.gameMap \in Range(gameConfig.mapPool)

\* C22: the mapPool of a ranked session is never empty, after creation and
\* after any sequence of configuration updates.
C22_MapPoolNonEmpty ==
    gameConfig.gameType = "Ranked" => Len(gameConfig.mapPool) > 0

\* The update of the last step.
MapUpdated == lastRead.op = "updateGameConfig" /\ lastRead.before.gameType = "Ranked"

\* C23: a gameMap update of a ranked session is applied if the candidate is
\* in RANKED_MAP_POOL and leaves the previous gameMap otherwise; it raises no
\* error and changes no other field.
C23_GameMapOnlyFromRankedPool ==
    (MapUpdated /\ Has(lastRead.update, "gameMap")) =>
        /\ ~lastRead.threw
        /\ gameConfig.gameMap =
              IF lastRead.update.gameMap \in Range(RANKED_MAP_POOL)
              THEN lastRead.update.gameMap ELSE lastRead.before.gameMap
        /\ DOMAIN gameConfig = DOMAIN lastRead.before
        /\ \A k \in (DOMAIN gameConfig) \ {"gameMap"} : gameConfig[k] = lastRead.before[k]

C23_Witness ==
    /\ MapUpdated
    /\ Has(lastRead.update, "gameMap")
    /\ lastRead.update.gameMap \notin Range(RANKED_MAP_POOL)
    /\ lastRead.before.gameMap # lastRead.update.gameMap
    /\ gameConfig.gameMap = lastRead.before.gameMap

\* The positions of the submitted entries that are in RANKED_MAP_POOL.
KeptPositions(submitted) ==
    { i \in 1 .. Len(submitted) : submitted[i] \in Range(RANKED_MAP_POOL) }

\* C24: a mapPool update of a ranked session stores the submitted entries
\* that are in RANKED_MAP_POOL, each as often as submitted and in the
\* submitted order, and nothing else ([World, Europe, Africa] is stored as
\* [World, Europe]).
C24_MapPoolFiltered ==
    (MapUpdated /\ Has(lastRead.update, "mapPool")) =>
        LET submitted == lastRead.update.mapPool
            kept == KeptPositions(submitted)
        IN /\ Len(gameConfig.mapPool) = Cardinality(kept)
           /\ \A i \in kept :
                 gameConfig.mapPool[Cardinality({ j \in kept : j <= i })] = submitted[i]
           /\ submitted = <<"World", "Europe", "Africa">> =>
                 gameConfig.mapPool = <<"World", "Europe">>

C24_Witness ==
    /\ MapUpdated
    /\ Has(lastRead.update, "mapPool")
    /\ lastRead.update.mapPool = <<"Europe", "Africa", "World">>
    /\ gameConfig.mapPool = <<"Europe", "World">>

\* C25: whatever the overrides, createRankedGameConfig returns the ranked
\* preset: gameType Ranked, gameMode FFA, NPCs disabled, no bots, no
\* resource abundance, the ranked turn timers and fog rule; and
\* RANKED_MAP_POOL as its mapPool when the overrides carry no mapPool.
C25_PresetFieldsFixed ==
    callArgs.fn = "createRankedGameConfig" =>
        LET config == callResult.value
        IN /\ ~callResult.threw
           /\ config.gameType = "Ranked"
           /\ config.gameMode = "FFA"
           /\ config.disableNPCs
           /\ config.bots = 0
           /\ ~config.infiniteGold /\ ~config.infiniteTroops /\ ~config.instantBuild
           /\ config.turnTimers =
                 [queueSeconds |-> 60, lobbySeconds |-> 30, turnSeconds |-> 45]
           /\ config.fogRule = "Persistent"
           /\ ~Has(callArgs.overrides, "mapPool") => config.mapPool = RANKED_MAP_POOL

C25_Witness ==
    /\ callArgs.fn = "createRankedGameConfig"
    /\ Has(callArgs.overrides, "gameType")
    /\ callArgs.overrides.gameType # "Ranked"
    /\ ~Has(callArgs.overrides, "mapPool")
    /\ callResult.value.gameType = "Ranked"

\* The call of ensureValidTeamSetup that has run, and what the claims say of
\* its inputs.
TeamSetupRan == callArgs.fn = "ensureValidTeamSetup" /\ callResult.done

NpcCount == IF callArgs.disableNPCs THEN 0 ELSE callArgs.terrainData.nations

TotalPlayers ==
    LET capacity == IF callArgs.config.maxPlayers = Undefined
                    THEN callArgs.humanCount ELSE callArgs.config.maxPlayers
    IN Max(callArgs.humanCount + NpcCount, capacity + NpcCount)

GroupSize ==
    CASE callArgs.config.playerTeams.name = "Duos" -> 2
      [] callArgs.config.playerTeams.name = "Trios" -> 3
      [] callArgs.config.playerTeams.name = "Quads" -> 4

KnownPolicy ==
    \/ callArgs.config.playerTeams.type = "number"
    \/ callArgs.config.playerTeams.name \in {"Duos", "Trios", "Quads"}

\* The least number of groups of GroupSize that hold TotalPlayers players.
ResolvedCount ==
    IF callArgs.config.playerTeams.type = "number"
    THEN callArgs.config.playerTeams.number
    ELSE CHOOSE c \in 0 .. TotalPlayers :
            c * GroupSize >= TotalPlayers /\ (c = 0 \/ (c - 1) * GroupSize < TotalPlayers)

\* The named policy of the call is Trios.
IsTrios ==
    /\ callArgs.config.playerTeams.type = "string"
    /\ callArgs.config.playerTeams.name = "Trios"

RaisedTooFewTeams == callResult.threw /\ callResult.error = "TooFewTeamsError"

\* C26: in team mode with a literal or named policy, ensureValidTeamSetup
\* raises TooFewTeams exactly when the resolved team count is below 2, and
\* the error carries that count; otherwise it returns.  Trios with 1 player
\* raises with count 1, Trios with 48 players does not raise.
C26_TooFewTeamsIffBelowTwo ==
    (TeamSetupRan /\ callArgs.config.gameMode = "Team" /\ KnownPolicy) =>
        /\ RaisedTooFewTeams <=> ResolvedCount < 2
        /\ RaisedTooFewTeams => callResult.teamCount = ResolvedCount
        /\ ~RaisedTooFewTeams => ~callResult.threw
        /\ (IsTrios /\ TotalPlayers = 1) =>
              RaisedTooFewTeams /\ callResult.teamCount = 1
        /\ (IsTrios /\ TotalPlayers = 48) =>
              ~callResult.threw

C26_Witness ==
    /\ TeamSetupRan
    /\ callArgs.config.gameMode = "Team"
    /\ IsTrios
    /\ TotalPlayers = 4
    /\ ~callArgs.disableNPCs /\ NpcCount > 0
    /\ ~callResult.threw

\* C27: outside team mode ensureValidTeamSetup never raises, whatever the
\* policy (an unrecognized one included), capacity, human count, nation
\* count and NPC flag.
C27_NoErrorOutsideTeamMode ==
    (TeamSetupRan /\ callArgs.config.gameMode # "Team") => ~callResult.threw

C27_Witness ==
    /\ TeamSetupRan
    /\ callArgs.config.gameMode # "Team"
    /\ ~KnownPolicy
    /\ TotalPlayers = 0
    /\ ~callResult.threw

\* C28: in team mode an unrecognized policy makes ensureValidTeamSetup fail
\* with an error that is not TooFewTeams, for every player count.
C28_UnknownPolicyIsFatal ==
    (TeamSetupRan /\ callArgs.config.gameMode = "Team" /\ ~KnownPolicy) =>
        /\ callResult.threw
        /\ callResult.error # "TooFewTeamsError"
        /\ callResult.message = "Unknown TeamCountConfig"

C28_Witness ==
    /\ TeamSetupRan
    /\ callArgs.config.gameMode = "Team"
    /\ ~KnownPolicy
    /\ TotalPlayers = 48
    /\ callResult.threw /\ callResult.error = "Error"

\* The call of genTerrainFromBin that has run: the bytes its buffer has
\* beyond width*height, and whether the dimensions written into the header
\* are the manifest's.
TerrainRan == callArgs.fn = "genTerrainFromBin" /\ callResult.done

ExpectedLength == callArgs.mapData.width * callArgs.mapData.height

ExtraBytes == Len(callArgs.data) - ExpectedLength

DimensionsMatch ==
    /\ callArgs.words[1] = callArgs.mapData.width
    /\ callArgs.words[2] = callArgs.mapData.height

TerrainAccepted ==
    /\ ExtraBytes \in {0, 4, 8, 12}
    /\ ExtraBytes \in {8, 12} => DimensionsMatch

\* C29: genTerrainFromBin accepts a buffer exactly when it has 0, 4, 8 or 12
\* bytes beyond width*height and, with 8 or 12, the embedded width and height
\* are the manifest's; a shorter buffer fails with 'too small', another
\* surplus with 'unexpected header bytes', other dimensions with 'embedded
\* dimensions'; the land-tile count is the header's with 4 or 12 header
\* bytes and the manifest's with 0 or 8.
C29_TerrainHeaderCases ==
    TerrainRan =>
        /\ ~callResult.threw <=> TerrainAccepted
        /\ ExtraBytes < 0 => callResult.threw /\ callResult.message = "too small"
        /\ (ExtraBytes > 0 /\ ExtraBytes \notin {4, 8, 12}) =>
              callResult.threw /\ callResult.message = "unexpected header bytes"
        /\ (ExtraBytes \in {8, 12} /\ ~DimensionsMatch) =>
              callResult.threw /\ callResult.message = "embedded dimensions"
        /\ TerrainAccepted =>
              callResult.value.numLandTiles =
                 CASE ExtraBytes = 4 -> callArgs.words[1]
                   [] ExtraBytes = 12 -> callArgs.words[3]
                   [] OTHER -> callArgs.mapData.num_land_tiles

C29_Witness ==
    /\ TerrainRan
    /\ ExtraBytes = 12
    /\ DimensionsMatch
    /\ callArgs.words[3] = 258
    /\ ~callResult.threw
    /\ callResult.value.numLandTiles = 258

\* The lobbies the snapshot lists.
Listed == 1 .. Len(publicLobbiesJsonStr.lobbies)

ListedID(j) == publicLobbiesJsonStr.lobbies[j].gameID

\* C30: the snapshot a tick publishes lists only lobbies the tick polled
\* whose status carried a gameConfig, a time to start more than 250 ms away
\* (at the poll, and still when the results were processed) and, with a
\* maxPlayers, fewer clients than that; no lobby is listed twice; and the
\* counts the tick schedules by are the numbers of listed lobbies registered
\* as public and as ranked.
C30_SnapshotListsHealthyAndCounts ==
    lastTick.done =>
        /\ publicLobbiesJsonStr.published
        /\ \A j \in Listed :
              LET g == ListedID(j)
              IN /\ g \in Polled
                 /\ lastTick.results[g] # Null
                 /\ lastTick.results[g].hasConfig
                 /\ lastTick.results[g].msUntilStart # Undefined
                 /\ lastTick.results[g].msUntilStart - lastTick.sentAt > 250
                 /\ lastTick.results[g].msUntilStart - lastTick.at > 250
                 /\ lastTick.results[g].maxPlayers # Undefined =>
                       NumClientsOf(lastTick.results[g]) < lastTick.results[g].maxPlayers
        /\ \A j \in Listed, k \in Listed : ListedID(j) = ListedID(k) => j = k
        /\ \A ty \in GameTypes :
              lastTick.counts[ty] =
                 Cardinality({ j \in Listed : PolledType(ListedID(j)) = ty })

C30_Witness ==
    /\ lastTick.done
    /\ \E j \in Listed : PolledType(ListedID(j)) = "Ranked"
    /\ \E g \in Polled : g \notin SnapshotIDs /\ PolledType(g) = "Public"
    /\ lastTick.counts["Ranked"] = 1
    /\ lastTick.counts["Public"] = 0

\* The tracked lobbies of a type.
TrackedOf(ty) == { g \in Tracked : publicLobbyIDs[g] = ty }

\* C31: the registry holds at most one public and at most one ranked lobby,
\* after any sequence of ticks, scheduling calls and worker responses.
C31_OneLobbyPerType ==
    \A ty \in GameTypes : Cardinality(TrackedOf(ty)) <= 1

\* C32: the periodic reconciliation loop is started at most once: a
\* WORKER_READY received when all workers are already marked ready starts
\* no other loop.
C32_OneLoop == Len(timerDue) <= 1

\* C33: when a create-game call returns success, the identifier of the new
\* game is in the registry, however the call interleaves with the status
\* polls of the ticks that run while it is in flight.
C33_CreatedLobbyTracked ==
    (lastCall.kind = "create" /\ lastCall.ok) => lastCall.gameID \in Tracked

\* C34: scheduleLobby registers the new identifier with its type and
\* issues the create-game call for it; when the call fails or is answered
\* non-OK the identifier is removed and the error is thrown to the caller;
\* for a game type other than public and ranked nothing is registered and
\* no call is issued.
C34_ScheduleRegistersThenCalls ==
    /\ (lastCall.kind = "schedule" /\ lastCall.gameType \in {"Public", "Ranked"}) =>
          /\ lastCall.gameID \notin DOMAIN lastCall.before
          /\ lastCall.gameID \in Tracked
          /\ publicLobbyIDs[lastCall.gameID] = lastCall.gameType
          /\ \A g \in DOMAIN lastCall.before :
                g \in Tracked /\ publicLobbyIDs[g] = lastCall.before[g]
          /\ Cardinality({ c \in creates \ lastCall.pending :
                             c.gameID = lastCall.gameID /\ c.gameType = lastCall.gameType }) = 1
          /\ Cardinality(creates \ lastCall.pending) = 1
    /\ (lastCall.kind = "schedule" /\ lastCall.gameType \notin {"Public", "Ranked"}) =>
          /\ publicLobbyIDs = lastCall.before
          /\ creates = lastCall.pending
    /\ (lastCall.kind = "create" /\ ~lastCall.ok) =>
          lastCall.gameID \notin Tracked /\ lastCall.threw
    /\ (lastCall.kind = "create" /\ lastCall.ok) => ~lastCall.threw

C34_Witness ==
    /\ lastCall.kind = "schedule"
    /\ lastCall.gameType = "Private"
    /\ lastCall.before # EmptyMap
    /\ lastCall.pending # {}
    /\ \E g \in DOMAIN lastCall.before : lastCall.before[g] = "Ranked"
    /\ \E c \in lastCall.pending : c.gameType = "Public"

\* C35: every lobby a published snapshot lists is in the registry when the
\* snapshot is published.
C35_ListedIsTracked == lastTick.done => SnapshotIDs \subseteq Tracked

\* C36: the phase of a ranked session never moves back from Lobby to
\* Queue, also when clients leave before the queue deadline has passed.
C36_LobbyNeverBackToQueue ==
    [][(gameConfig.gameType = "Ranked" /\ Phase = "Lobby") => Phase' # "Queue"]_vars

\* C37: initialize() settles exactly once: resolve and reject are called
\* once together, the promise resolves only on an 'initialized' reply and
\* rejects on init_error, error, messageerror and the timeout, isInitialized
\* is true exactly when it resolved, and a pending call settles in the end.
C37_Settled == promise.state \in {"resolved", "rejected"}

C37_Safe ==
    /\ promise.calls <= 1
    /\ promise.calls = 1 <=> C37_Settled
    /\ promise.state = "resolved" => promise.by = "initialized"
    /\ promise.state = "rejected"
          => promise.by \in {"init_error", "error", "messageerror", "timeout"}
    /\ isInitialized <=> promise.state = "resolved"

C37_SettlesExactlyOnce ==
    /\ []C37_Safe
    /\ [][promise.state = "rejected" => ~isInitialized']_vars
    /\ (promise.state = "pending") ~> C37_Settled

\* An 'initialized' reply for the init request was dispatched after a worker
\* error rejected the call.
C37_Witness ==
    /\ promise.state = "rejected"
    /\ ~isInitialized
    /\ workerEvents.dispatched = 2
    /\ workerEvents.script[1].kind = "error"
    /\ workerEvents.script[2] = [kind |-> "message", type |-> "initialized", id |-> MessageId]

\* The binary a terrain of the given size is built from.
BinOf(map, mapSize, which) ==
    IF mapSize = "Normal"
    THEN (IF which = "gameMap" THEN MapFiles(map).mapBin ELSE MapFiles(map).map4xBin)
    ELSE (IF which = "gameMap" THEN MapFiles(map).map4xBin ELSE MapFiles(map).map16xBin)

\* C38: whatever was loaded before, loadTerrainMap(map, mapSize) returns a
\* game map and a mini map built from the binaries of the requested mapSize.
C38_TerrainOfRequestedSize ==
    lastLoad.done =>
        /\ lastLoad.value.gameMap.terrainData = BinOf(lastLoad.map, lastLoad.mapSize, "gameMap")
        /\ lastLoad.value.miniGameMap.terrainData
              = BinOf(lastLoad.map, lastLoad.mapSize, "miniGameMap")

\* The session of the request's token was removed or its expiry has passed.
C39_NoSession ==
    \/ lastResponse.token.uuid \notin DOMAIN lastResponse.before
    \/ lastResponse.before[lastResponse.token.uuid].expiresAt <= lastResponse.at

C39_Answered == lastResponse.route \in {"refresh", "users/@me"}

C39_NotFound == lastResponse.status = 401 /\ lastResponse.error = "session_not_found"

\* A request is answered with a profile or a token only for a session that is
\* stored and not expired, an expired entry is not left in the store, and a
\* successful /refresh sets the expiry to 7 days from the refresh.
C39_SessionWindow ==
    C39_Answered =>
        /\ lastResponse.status = 200 => ~C39_NoSession
        /\ (lastResponse.token.present /\ validateAppToken(lastResponse.token, lastResponse.at)
              /\ C39_NoSession)
                 => lastResponse.token.uuid \notin DOMAIN sessionStore
        /\ (lastResponse.route = "refresh" /\ lastResponse.status = 200)
              => sessionStore[lastResponse.token.uuid].expiresAt
                     = lastResponse.at + SESSION_TTL_MS

\* C39 as stated: /refresh and /users/@me answer 401 session_not_found for
\* every validly signed token whose session was removed or has expired.
C39_SignedTokenNotFound ==
    /\ C39_SessionWindow
    /\ (C39_Answered /\ lastResponse.token.signed /\ C39_NoSession) => C39_NotFound

\* C39: /refresh and /users/@me answer 401 session_not_found for a token
\* that validateAppToken accepts (validly signed and not past its own 24 h
\* expiry) whose session was removed by /logout or /revoke or has expired;
\* only a stored, unexpired session is answered with 200, and a successful
\* /refresh moves the expiry to 7 days from the refresh.
C39_AcceptedTokenNotFound ==
    /\ C39_SessionWindow
    /\ (C39_Answered /\ lastResponse.token.present
          /\ validateAppToken(lastResponse.token, lastResponse.at) /\ C39_NoSession)
             => C39_NotFound

\* A token that is still accepted is sent to /refresh after its session was
\* removed.
C39_Witness ==
    /\ lastResponse.route = "refresh"
    /\ lastResponse.token.signed
    /\ validateAppToken(lastResponse.token, lastResponse.at)
    /\ lastResponse.at > StartTime
    /\ C39_NoSession
    /\ C39_NotFound

====
